---- MODULE Spec2Model ----
(***************************************************************************)
(* Model of the template preprocessor (TemplatePreprocessor.cpp).          *)
(*                                                                         *)
(* Text is a sequence of one-character strings.  Positions are 0-based as  *)
(* in the C++ source (size_t indices into std::string); At(text, pos) is   *)
(* text[pos].  std::string::npos is modelled by NPOS (-1).                 *)
(***************************************************************************)
EXTENDS Integers, Sequences, FiniteSets, TLC

\* ------------------------------------------------------------------------
\* Characters and <cctype> classes
\* ------------------------------------------------------------------------

NPOS == -1

At(text, pos) == text[pos + 1]

\* std::string::substr(pos, n) with n clamped to the end of the string.
Substr(text, pos, n) ==
    LET last == IF pos + n > Len(text) THEN Len(text) ELSE pos + n
    IN SubSeq(text, pos + 1, last)

\* std::string::substr(pos): the tail from pos.
SubstrFrom(text, pos) == SubSeq(text, pos + 1, Len(text))

MinOf(a, b) == IF a < b THEN a ELSE b

LowerLetters ==
    << "a","b","c","d","e","f","g","h","i","j","k","l","m",
       "n","o","p","q","r","s","t","u","v","w","x","y","z" >>

UpperLetters ==
    << "A","B","C","D","E","F","G","H","I","J","K","L","M",
       "N","O","P","Q","R","S","T","U","V","W","X","Y","Z" >>

DigitChars == << "0","1","2","3","4","5","6","7","8","9" >>

Range(s) == { s[i] : i \in DOMAIN s }

isalpha(c) == c \in Range(LowerLetters) \cup Range(UpperLetters)

isdigit(c) == c \in Range(DigitChars)

isalnum(c) == isalpha(c) \/ isdigit(c)

isspace(c) == c \in {" ", "\t", "\n", "\r"}

isxdigit(c) ==
    isdigit(c) \/ c \in {"a","b","c","d","e","f","A","B","C","D","E","F"}

tolower(c) ==
    IF c \in Range(UpperLetters)
    THEN LowerLetters[CHOOSE i \in DOMAIN UpperLetters : UpperLetters[i] = c]
    ELSE c

is_identifier_start(c) == isalpha(c) \/ c = "_"

is_identifier_char(c) == isalnum(c) \/ c = "_"

is_type_char(c) == isalnum(c) \/ c = "_" \/ c = "." \/ c = ":"

\* ------------------------------------------------------------------------
\* std::string searching
\* ------------------------------------------------------------------------

\* Whether `token` occurs in `text` at position pos.
OccursAt(text, token, pos) ==
    /\ pos >= 0
    /\ pos + Len(token) <= Len(text)
    /\ \A i \in 1..Len(token) : text[pos + i] = token[i]

\* std::string::find(token, position)
StrFind(text, token, position) ==
    LET hits == { p \in position..(Len(text) - Len(token)) : OccursAt(text, token, p) }
    IN IF hits = {} THEN NPOS ELSE CHOOSE p \in hits : \A q \in hits : p <= q

\* std::string::rfind(token) over the whole string
StrRFind(text, token) ==
    LET hits == { p \in 0..(Len(text) - Len(token)) : OccursAt(text, token, p) }
    IN IF hits = {} THEN NPOS ELSE CHOOSE p \in hits : \A q \in hits : p >= q

\* std::string::rfind(ch, pos): the last occurrence starting at or before pos.
StrRFindCharFrom(text, ch, pos) ==
    LET hits == { p \in 0..MinOf(pos, Len(text) - 1) : At(text, p) = ch }
    IN IF hits = {} THEN NPOS ELSE CHOOSE p \in hits : \A q \in hits : p >= q

\* The first position p >= pos with p >= size or text[p] = '\n'
\* (the loop `while (pos < size && text[pos] != '\n') ++pos;`).
RECURSIVE ToLineEnd(_, _)
ToLineEnd(text, pos) ==
    IF pos < Len(text) /\ At(text, pos) # "\n"
    THEN ToLineEnd(text, pos + 1)
    ELSE pos

\* The loop `while (pos + 1 < size && !(text[pos]=='*' && text[pos+1]=='/')) ++pos;`
\* followed by `pos = std::min(pos + 2, size)`.
RECURSIVE ToBlockCommentStar(_, _)
ToBlockCommentStar(text, pos) ==
    IF pos + 1 < Len(text) /\ ~(At(text, pos) = "*" /\ At(text, pos + 1) = "/")
    THEN ToBlockCommentStar(text, pos + 1)
    ELSE pos

PastBlockComment(text, pos) ==
    MinOf(ToBlockCommentStar(text, pos) + 2, Len(text))

\* ------------------------------------------------------------------------
\* Lexical primitives
\* ------------------------------------------------------------------------

RECURSIVE skip_whitespace_and_comments(_, _)
skip_whitespace_and_comments(text, pos) ==
    LET size == Len(text) IN
    IF pos >= size THEN pos
    ELSE LET c == At(text, pos) IN
         IF isspace(c) THEN skip_whitespace_and_comments(text, pos + 1)
         ELSE IF c = "/" /\ pos + 1 < size /\ At(text, pos + 1) = "/"
              THEN skip_whitespace_and_comments(text, ToLineEnd(text, pos + 2))
         ELSE IF c = "/" /\ pos + 1 < size /\ At(text, pos + 1) = "*"
              THEN skip_whitespace_and_comments(text, PastBlockComment(text, pos + 2))
         ELSE pos

\* The loop of skip_string_literal, after the opening delimiter was passed.
\* A backslash advances by two, so the result may be size + 1.
RECURSIVE StringLiteralLoop(_, _, _)
StringLiteralLoop(text, pos, delimiter) ==
    IF pos >= Len(text) THEN pos
    ELSE LET c == At(text, pos) IN
         IF c = "\\" THEN StringLiteralLoop(text, pos + 2, delimiter)
         ELSE IF c = delimiter THEN pos + 1
         ELSE StringLiteralLoop(text, pos + 1, delimiter)

skip_string_literal(text, pos, delimiter) ==
    StringLiteralLoop(text, pos + 1, delimiter)

match_keyword(text, pos, keyword) ==
    IF pos + Len(keyword) > Len(text) THEN FALSE
    ELSE IF \/ (pos > 0 /\ is_identifier_char(At(text, pos - 1)))
            \/ (pos + Len(keyword) < Len(text)
                /\ is_identifier_char(At(text, pos + Len(keyword))))
         THEN FALSE
    ELSE Substr(text, pos, Len(keyword)) = keyword

RECURSIVE TrimBegin(_, _, _)
TrimBegin(sv, begin, end) ==
    IF begin < end /\ isspace(At(sv, begin)) THEN TrimBegin(sv, begin + 1, end)
    ELSE begin

RECURSIVE TrimEnd(_, _, _)
TrimEnd(sv, begin, end) ==
    IF end > begin /\ isspace(At(sv, end - 1)) THEN TrimEnd(sv, begin, end - 1)
    ELSE end

trim(sv) ==
    LET begin == TrimBegin(sv, 0, Len(sv))
        end   == TrimEnd(sv, begin, Len(sv))
    IN Substr(sv, begin, end - begin)

\* ------------------------------------------------------------------------
\* Words of the language
\* ------------------------------------------------------------------------

KwStruct    == << "s","t","r","u","c","t" >>
KwClass     == << "c","l","a","s","s" >>
KwNamespace == << "n","a","m","e","s","p","a","c","e" >>
KwTypename  == << "t","y","p","e","n","a","m","e" >>
KwTemplate  == << "t","e","m","p","l","a","t","e" >>
KwConst     == << "c","o","n","s","t" >>
KwVolatile  == << "v","o","l","a","t","i","l","e" >>
Ellipsis    == << ".",".","." >>

\* ------------------------------------------------------------------------
\* split_template_parameters
\* ------------------------------------------------------------------------

\* The position of the first '=' outside nested <...>, or NPOS
\* (the inner `assign_depth` loop).
RECURSIVE AssignPos(_, _, _)
AssignPos(cleaned, j, assign_depth) ==
    IF j >= Len(cleaned) THEN NPOS
    ELSE LET ch == At(cleaned, j) IN
         IF ch = "<" THEN AssignPos(cleaned, j + 1, assign_depth + 1)
         ELSE IF ch = ">"
              THEN AssignPos(cleaned, j + 1,
                             IF assign_depth > 0 THEN assign_depth - 1 ELSE assign_depth)
         ELSE IF ch = "=" /\ assign_depth = 0 THEN j
         ELSE AssignPos(cleaned, j + 1, assign_depth)

RECURSIVE NameBegin(_, _)
NameBegin(cleaned, begin) ==
    IF begin > 0 /\ (isalnum(At(cleaned, begin - 1)) \/ At(cleaned, begin - 1) = "_")
    THEN NameBegin(cleaned, begin - 1)
    ELSE begin

ToLowerStr(s) == [i \in 1..Len(s) |-> tolower(s[i])]

Contains(text, token) == StrFind(text, token, 0) # NPOS

\* The parameter (a sequence of zero or one TemplateParameter) that one
\* trimmed comma-separated token of the parameter list yields.
ParameterOfToken(token) ==
    IF token = << >> THEN << >>
    ELSE
    LET assign_pos == AssignPos(token, 0, 0)
        cleaned0 == IF assign_pos # NPOS THEN trim(Substr(token, 0, assign_pos)) ELSE token
    IN
    IF cleaned0 = << >> THEN << >>
    ELSE
    LET cleaned ==
            IF Len(cleaned0) >= 3 /\ Substr(cleaned0, Len(cleaned0) - 3, 3) = Ellipsis
            THEN trim(Substr(cleaned0, 0, Len(cleaned0) - 3))
            ELSE cleaned0
        end   == TrimEnd(cleaned, 0, Len(cleaned))
        begin == NameBegin(cleaned, end)
    IN
    IF begin < end
    THEN LET prefix       == trim(Substr(cleaned, 0, begin))
             prefix_lower == ToLowerStr(prefix)
             isType == \/ Contains(prefix_lower, KwTypename)
                       \/ Contains(prefix_lower, KwClass)
                       \/ Contains(prefix_lower, KwStruct)
                       \/ Contains(prefix_lower, KwTemplate)
         IN << [ m_name |-> Substr(cleaned, begin, end - begin),
                 m_kind |-> IF isType THEN "Type" ELSE "NonType" ] >>
    ELSE << >>

RECURSIVE SplitParametersLoop(_, _, _, _, _)
SplitParametersLoop(params, i, depth, token_start, result) ==
    IF i >= Len(params)
    THEN result \o ParameterOfToken(trim(SubstrFrom(params, token_start)))
    ELSE LET c == At(params, i) IN
         IF c = "<" THEN SplitParametersLoop(params, i + 1, depth + 1, token_start, result)
         ELSE IF c = ">"
              THEN SplitParametersLoop(params, i + 1,
                                       IF depth > 0 THEN depth - 1 ELSE depth,
                                       token_start, result)
         ELSE IF c = "," /\ depth = 0
              THEN SplitParametersLoop(params, i + 1, depth, i + 1,
                       result \o ParameterOfToken(trim(Substr(params, token_start, i - token_start))))
         ELSE SplitParametersLoop(params, i + 1, depth, token_start, result)

split_template_parameters(params) == SplitParametersLoop(params, 0, 0, 0, << >>)

\* ------------------------------------------------------------------------
\* parse_template_definition
\* ------------------------------------------------------------------------

\* What the string/comment-aware scanning loops do at a quote or a comment
\* start: the position after it, or NPOS when the character at pos starts
\* neither.
SkipLiteralOrComment(text, pos) ==
    LET c == At(text, pos) IN
    IF c = "\"" THEN skip_string_literal(text, pos, "\"")
    ELSE IF c = "'" THEN skip_string_literal(text, pos, "'")
    ELSE IF c = "/" /\ pos + 1 < Len(text) /\ At(text, pos + 1) = "/"
         THEN ToLineEnd(text, pos)
    ELSE IF c = "/" /\ pos + 1 < Len(text) /\ At(text, pos + 1) = "*"
         THEN PastBlockComment(text, pos + 2)
    ELSE NPOS

\* The loop over the parameter list: stops on the '>' that closes it.
RECURSIVE AngleLoop(_, _, _)
AngleLoop(text, consumed, angle_depth) ==
    IF ~(consumed < Len(text) /\ angle_depth > 0)
    THEN [consumed |-> consumed, depth |-> angle_depth]
    ELSE LET skip == SkipLiteralOrComment(text, consumed)
             c == At(text, consumed)
         IN IF skip # NPOS THEN AngleLoop(text, skip, angle_depth)
            ELSE IF c = "<" THEN AngleLoop(text, consumed + 1, angle_depth + 1)
            ELSE IF c = ">"
                 THEN IF angle_depth - 1 = 0
                      THEN [consumed |-> consumed, depth |-> 0]
                      ELSE AngleLoop(text, consumed + 1, angle_depth - 1)
            ELSE AngleLoop(text, consumed + 1, angle_depth)

\* The loop from after the parameter list to the first '{'.
RECURSIVE BetweenLoop(_, _)
BetweenLoop(text, consumed) ==
    IF consumed >= Len(text) THEN consumed
    ELSE LET skip == SkipLiteralOrComment(text, consumed) IN
         IF skip # NPOS THEN BetweenLoop(text, skip)
         ELSE IF At(text, consumed) = "{" THEN consumed
         ELSE BetweenLoop(text, consumed + 1)

\* The loop over the body: stops on the '}' that closes it.
RECURSIVE BodyLoop(_, _, _)
BodyLoop(text, consumed, brace_depth) ==
    IF ~(consumed < Len(text) /\ brace_depth > 0)
    THEN [consumed |-> consumed, depth |-> brace_depth]
    ELSE LET skip == SkipLiteralOrComment(text, consumed)
             c == At(text, consumed)
         IN IF skip # NPOS THEN BodyLoop(text, skip, brace_depth)
            ELSE IF c = "{" THEN BodyLoop(text, consumed + 1, brace_depth + 1)
            ELSE IF c = "}"
                 THEN IF brace_depth - 1 = 0
                      THEN [consumed |-> consumed, depth |-> 0]
                      ELSE BodyLoop(text, consumed + 1, brace_depth - 1)
            ELSE BodyLoop(text, consumed + 1, brace_depth)

\* Whitespace up to and including one newline.
RECURSIVE ClosingSpace(_, _)
ClosingSpace(text, closing_start) ==
    IF closing_start < Len(text) /\ isspace(At(text, closing_start))
    THEN IF At(text, closing_start) = "\n" THEN closing_start + 1
         ELSE ClosingSpace(text, closing_start + 1)
    ELSE closing_start

RECURSIVE IdentifierEnd(_, _)
IdentifierEnd(text, pos) ==
    IF pos < Len(text) /\ is_identifier_char(At(text, pos))
    THEN IdentifierEnd(text, pos + 1)
    ELSE pos

NoDefinition == [ok |-> FALSE]

\* parse_template_definition, stage by stage; every stage receives what the
\* code has computed so far and either rejects (return false) or goes on.

\* The record the function fills in on success.
DefinitionRecord(text, pos, m_keyword, m_name, m_parameters, between_start, open, body_end, closing_start, indentation_pos) ==
    [ ok |-> TRUE,
      consumed |-> closing_start,
      def |-> [ m_keyword |-> m_keyword,
                m_name |-> m_name,
                m_parameters |-> m_parameters,
                m_between |-> Substr(text, between_start, open - between_start),
                m_body |-> Substr(text, open + 1, body_end - (open + 1)),
                m_closing |-> Substr(text, body_end, closing_start - body_end),
                m_indentation |-> Substr(text, indentation_pos, pos - indentation_pos),
                m_scope_path |-> << >>,
                m_start |-> pos,
                m_end |-> closing_start,
                m_placeholder_generated |-> FALSE,
                m_specializations |-> << >>,
                m_specialization_index |-> << >> ] ]

\* closing_start: past the '}', whitespace up to a newline, an optional ';'
\* and whitespace up to a newline.
ClosingStart(text, body_end) ==
    LET c2 == ClosingSpace(text, IF body_end < Len(text) /\ At(text, body_end) = "}"
                                 THEN body_end + 1 ELSE body_end)
    IN IF c2 < Len(text) /\ At(text, c2) = ";" THEN ClosingSpace(text, c2 + 1) ELSE c2

DefinitionClosing(text, pos, m_keyword, m_name, m_parameters, between_start, open, body) ==
    IF body.depth # 0 \/ body.consumed >= Len(text)
    THEN NoDefinition
    ELSE DefinitionRecord(text, pos, m_keyword, m_name, m_parameters, between_start, open,
                          body.consumed, ClosingStart(text, body.consumed),
                          IF StrRFindCharFrom(text, "\n", pos) = NPOS THEN 0
                          ELSE StrRFindCharFrom(text, "\n", pos) + 1)

DefinitionBody(text, pos, m_keyword, m_name, m_parameters, between_start, open) ==
    IF open >= Len(text) \/ At(text, open) # "{"
    THEN NoDefinition
    ELSE DefinitionClosing(text, pos, m_keyword, m_name, m_parameters, between_start, open,
                           BodyLoop(text, open + 1, 1))

DefinitionBetween(text, pos, m_keyword, m_name, m_parameters, between_start) ==
    IF m_parameters = << >>
    THEN NoDefinition
    ELSE DefinitionBody(text, pos, m_keyword, m_name, m_parameters, between_start,
                        BetweenLoop(text, between_start))

DefinitionParameters(text, pos, m_keyword, m_name, params_start, angle) ==
    IF angle.depth # 0 \/ angle.consumed >= Len(text) \/ At(text, angle.consumed) # ">"
    THEN NoDefinition
    ELSE DefinitionBetween(text, pos, m_keyword, m_name,
             split_template_parameters(
                 Substr(text, params_start, angle.consumed - params_start)),
             angle.consumed + 1)

DefinitionAngle(text, pos, m_keyword, m_name, lt) ==
    IF lt >= Len(text) \/ At(text, lt) # "<"
    THEN NoDefinition
    ELSE DefinitionParameters(text, pos, m_keyword, m_name, lt + 1,
                              AngleLoop(text, lt + 1, 1))

DefinitionName(text, pos, m_keyword, name_start) ==
    IF m_keyword = << >>
    THEN NoDefinition
    ELSE IF name_start >= Len(text) \/ ~is_identifier_start(At(text, name_start))
    THEN NoDefinition
    ELSE DefinitionAngle(text, pos, m_keyword,
             Substr(text, name_start, IdentifierEnd(text, name_start) - name_start),
             skip_whitespace_and_comments(text, IdentifierEnd(text, name_start)))

\* The keyword at consumed: "struct" or "class", or << >> when neither.
DefinitionKeyword(text, consumed) ==
    IF match_keyword(text, consumed, KwStruct) THEN KwStruct
    ELSE IF match_keyword(text, consumed, KwClass) THEN KwClass
    ELSE << >>

\* The parse from the keyword on; consumed is the position after the
\* leading whitespace and comments.
DefinitionStart(text, pos, consumed) ==
    DefinitionName(text, pos, DefinitionKeyword(text, consumed),
        skip_whitespace_and_comments(text,
            consumed + Len(DefinitionKeyword(text, consumed))))

parse_template_definition(text, pos) ==
    DefinitionStart(text, pos, skip_whitespace_and_comments(text, pos))

\* ------------------------------------------------------------------------
\* parse_template_arguments
\* ------------------------------------------------------------------------

\* A trimmed token, kept when non-empty.
KeepToken(token) == IF token = << >> THEN << >> ELSE << token >>

RECURSIVE ArgumentsLoop(_, _, _, _, _)
ArgumentsLoop(text, pos, depth, token_start, result) ==
    IF ~(pos < Len(text) /\ depth > 0)
    THEN [args |-> result, out_pos |-> pos]
    ELSE LET skip == SkipLiteralOrComment(text, pos)
             c == At(text, pos)
         IN IF skip # NPOS THEN ArgumentsLoop(text, skip, depth, token_start, result)
            ELSE IF c = "<" THEN ArgumentsLoop(text, pos + 1, depth + 1, token_start, result)
            ELSE IF c = ">"
                 THEN IF depth - 1 = 0
                      THEN [args |-> result \o KeepToken(trim(Substr(text, token_start, pos - token_start))),
                            out_pos |-> pos + 1]
                      ELSE ArgumentsLoop(text, pos + 1, depth - 1, token_start, result)
            ELSE IF c = "," /\ depth = 1
                 THEN ArgumentsLoop(text, pos + 1, depth, pos + 1,
                          result \o KeepToken(trim(Substr(text, token_start, pos - token_start))))
            ELSE ArgumentsLoop(text, pos + 1, depth, token_start, result)

parse_template_arguments(text, lt_pos) ==
    IF lt_pos >= Len(text) \/ At(text, lt_pos) # "<"
    THEN [args |-> << >>, out_pos |-> lt_pos]
    ELSE ArgumentsLoop(text, lt_pos + 1, 1, lt_pos + 1, << >>)

\* ------------------------------------------------------------------------
\* sanitize_token, sanitize_scope_name
\* ------------------------------------------------------------------------

\* The lambda push_sep of sanitize_token.
push_sep(result) ==
    IF result # << >> /\ result[Len(result)] # "_"
    THEN Append(result, "_")
    ELSE result

\* A word between two separators: push_sep(); result += word; push_sep();
Worded(result, word) == push_sep(push_sep(result) \o word)

SanitizeChar(result, c) ==
    IF isalnum(c) \/ c = "_" THEN Append(result, c)
    ELSE IF c = "*" THEN Worded(result, << "p","t","r" >>)
    ELSE IF c = "&" THEN Worded(result, << "r","e","f" >>)
    ELSE IF c = "[" \/ c = "]" THEN Worded(result, << "a","r","r" >>)
    ELSE IF c = ":" THEN push_sep(result)
    ELSE IF c = "<" THEN Worded(result, << "l","t" >>)
    ELSE IF c = ">" THEN Worded(result, << "g","t" >>)
    ELSE IF c = "," THEN push_sep(result)
    ELSE IF c = "." THEN Worded(result, << "." >>)
    ELSE push_sep(result)

RECURSIVE SanitizeLoop(_, _, _)
SanitizeLoop(token, i, result) ==
    IF i > Len(token) THEN result
    ELSE SanitizeLoop(token, i + 1, SanitizeChar(result, token[i]))

sanitize_token(token) ==
    LET r0 == SanitizeLoop(token, 1, << >>)
        r1 == IF r0 # << >> /\ r0[1] = "_" THEN Tail(r0) ELSE r0
        r2 == IF r1 # << >> /\ isdigit(r1[1]) THEN << "_" >> \o r1 ELSE r1
        r3 == IF r2 = << >> THEN << "T" >> ELSE r2
    IN [i \in 1..Len(r3) |-> IF r3[i] = "." THEN "_" ELSE r3[i]]

sanitize_scope_name(path) ==
    [i \in 1..Len(path) |->
        IF isalnum(path[i]) \/ path[i] = "_" THEN path[i] ELSE "_"]

\* ------------------------------------------------------------------------
\* find_identifier, make_signature, replace_parameters
\* ------------------------------------------------------------------------

RECURSIVE find_identifier(_, _, _)
find_identifier(text, token, position) ==
    LET found == StrFind(text, token, position) IN
    IF found = NPOS THEN NPOS
    ELSE LET before == IF found = 0 THEN "\\0" ELSE At(text, found - 1)
             after  == IF found + Len(token) >= Len(text) THEN "\\0"
                       ELSE At(text, found + Len(token))
         IN IF ~is_identifier_char(before) /\ ~is_identifier_char(after)
            THEN found
            ELSE find_identifier(text, token, found + Len(token))

\* std::string::replace(pos, n, replacement)
StrReplace(text, pos, n, replacement) ==
    Substr(text, 0, pos) \o replacement \o SubstrFrom(text, MinOf(pos + n, Len(text)))

UnitSeparator == "\\x1f"

RECURSIVE make_signature(_)
make_signature(args) ==
    IF args = << >> THEN << >>
    ELSE IF Len(args) = 1 THEN args[1]
    ELSE args[1] \o << UnitSeparator >> \o make_signature(Tail(args))

\* The inner while loop of replace_parameters for one parameter.
RECURSIVE ReplaceOneParameter(_, _, _, _)
ReplaceOneParameter(text, param, replacement, pos) ==
    LET found == find_identifier(text, param, pos) IN
    IF found = NPOS THEN text
    ELSE ReplaceOneParameter(StrReplace(text, found, Len(param), replacement),
                             param, replacement, found + Len(replacement))

RECURSIVE ReplaceParametersLoop(_, _, _, _)
ReplaceParametersLoop(text, params, args, i) ==
    IF i > Len(params) THEN text
    ELSE ReplaceParametersLoop(
             ReplaceOneParameter(text, params[i].m_name, args[i], 0),
             params, args, i + 1)

replace_parameters(text, params, args) ==
    IF Len(params) # Len(args) THEN text
    ELSE ReplaceParametersLoop(text, params, args, 1)

\* ------------------------------------------------------------------------
\* int64_t arithmetic
\*
\* The evaluator computes in int64_t.  The model keeps the two's-complement
\* width as IntBits, so that every overflow case of the code has its
\* counterpart at the model's width: a literal above IntMax makes
\* std::stoll throw, and signed overflow is undefined behaviour.
\* ------------------------------------------------------------------------

IntBits == 8

RECURSIVE Pow2(_)
Pow2(n) == IF n <= 0 THEN 1 ELSE 2 * Pow2(n - 1)

IntMax == Pow2(IntBits - 1) - 1
IntMin == -Pow2(IntBits - 1)

InRange(x) == IntMin <= x /\ x <= IntMax

\* x reduced modulo 2^IntBits and read as a two's-complement signed integer.
Wrap(x) ==
    LET m == x % Pow2(IntBits)
    IN IF m > IntMax THEN m - Pow2(IntBits) ELSE m

\* Truncating division and remainder of C++ (b # 0).
Abs(x) == IF x < 0 THEN -x ELSE x
TruncDiv(a, b) ==
    LET q == Abs(a) \div Abs(b)
    IN IF (a < 0) = (b < 0) THEN q ELSE -q
TruncMod(a, b) == a - b * TruncDiv(a, b)

\* Bitwise operators on the two's-complement representation.
RECURSIVE BitOp(_, _, _, _)
BitOp(op, ua, ub, n) ==
    IF n = 0 THEN 0
    ELSE LET x == ua % 2
             y == ub % 2
             bit == IF op = "|" THEN (IF x + y > 0 THEN 1 ELSE 0)
                    ELSE IF op = "&" THEN x * y
                    ELSE (x + y) % 2
         IN bit + 2 * BitOp(op, ua \div 2, ub \div 2, n - 1)

Bitwise(op, a, b) ==
    Wrap(BitOp(op, a % Pow2(IntBits), b % Pow2(IntBits), IntBits))

\* The value a binary operator of the code leaves in `value`, and whether
\* the C++ operation was undefined behaviour (signed overflow, a shift count
\* outside [0, width), the quotient IntMin / -1).  Where the behaviour is
\* undefined `value` is the wrapped result, one of the outcomes.
Arith(op, a, b) ==
    IF op = "+" THEN [value |-> Wrap(a + b), ub |-> ~InRange(a + b)]
    ELSE IF op = "-" THEN [value |-> Wrap(a - b), ub |-> ~InRange(a - b)]
    ELSE IF op = "*" THEN [value |-> Wrap(a * b), ub |-> ~InRange(a * b)]
    ELSE IF op = "/" THEN [value |-> Wrap(TruncDiv(a, b)), ub |-> ~InRange(TruncDiv(a, b))]
    ELSE IF op = "%" THEN [value |-> TruncMod(a, b), ub |-> ~InRange(TruncDiv(a, b))]
    ELSE IF op = "<<"
         THEN IF 0 <= b /\ b < IntBits
              THEN [value |-> Wrap(a * Pow2(b)), ub |-> FALSE]
              ELSE [value |-> Wrap(a * Pow2(b % IntBits)), ub |-> TRUE]
    ELSE IF op = ">>"
         THEN IF 0 <= b /\ b < IntBits
              THEN [value |-> a \div Pow2(b), ub |-> FALSE]
              ELSE [value |-> a \div Pow2(b % IntBits), ub |-> TRUE]
    ELSE [value |-> Bitwise(op, a, b), ub |-> FALSE]

\* std::to_string(int64_t)
RECURSIVE NatToString(_)
NatToString(n) ==
    IF n < 10 THEN << DigitChars[n + 1] >>
    ELSE NatToString(n \div 10) \o << DigitChars[(n % 10) + 1] >>

to_string(v) == IF v < 0 THEN << "-" >> \o NatToString(-v) ELSE NatToString(v)

\* ------------------------------------------------------------------------
\* ConstantExpressionParser
\*
\* A parser state is [pos, valid, ub] (m_pos, m_valid, and whether an
\* undefined operation was executed); every parse_* operator returns the
\* state with the value it computed: [value, pos, valid, ub].
\* ------------------------------------------------------------------------

RECURSIVE skip_ws(_, _)
skip_ws(expr, pos) ==
    IF pos < Len(expr) /\ isspace(At(expr, pos)) THEN skip_ws(expr, pos + 1)
    ELSE pos

match_char(expr, pos, ch) ==
    LET p == skip_ws(expr, pos) IN
    IF p < Len(expr) /\ At(expr, p) = ch
    THEN [matched |-> TRUE, pos |-> p + 1]
    ELSE [matched |-> FALSE, pos |-> p]

consume_numeric_suffix(expr, pos) ==
    LET RECURSIVE Suffix(_)
        Suffix(local_pos) ==
            IF local_pos < Len(expr) /\ At(expr, local_pos) \in {"u", "U", "l", "L"}
            THEN Suffix(local_pos + 1)
            ELSE local_pos
    IN Suffix(pos)

HexValue(c) ==
    IF isdigit(c) THEN CHOOSE i \in 0..9 : DigitChars[i + 1] = c
    ELSE LET l == tolower(c) IN 9 + CHOOSE i \in 1..6 : LowerLetters[i] = l

\* std::stoll(digits, nullptr, base): the value, or -1 where it throws
\* std::out_of_range (the value exceeds the largest int64_t).
RECURSIVE stoll(_, _, _, _)
stoll(digits, base, i, acc) ==
    IF i > Len(digits) THEN acc
    ELSE LET next == acc * base + HexValue(digits[i]) IN
         IF next > IntMax THEN -1
         ELSE stoll(digits, base, i + 1, next)

RECURSIVE DigitsEnd(_, _, _)
DigitsEnd(expr, pos, hex) ==
    IF pos < Len(expr) /\ (IF hex THEN isxdigit(At(expr, pos)) ELSE isdigit(At(expr, pos)))
    THEN DigitsEnd(expr, pos + 1, hex)
    ELSE pos

Invalid(st, pos) == [value |-> 0, pos |-> pos, valid |-> FALSE, ub |-> st.ub]

parse_number(expr, st) ==
    LET start == skip_ws(expr, st.pos) IN
    IF start >= Len(expr) THEN Invalid(st, start)
    ELSE IF /\ At(expr, start) = "0"
            /\ start + 1 < Len(expr)
            /\ At(expr, start + 1) \in {"x", "X"}
    THEN LET digits_start == start + 2
             digits_end == DigitsEnd(expr, digits_start, TRUE)
             value == stoll(Substr(expr, digits_start, digits_end - digits_start), 16, 1, 0)
         IN IF digits_start = digits_end THEN Invalid(st, digits_end)
            ELSE IF value = -1 THEN Invalid(st, digits_end)
            ELSE [value |-> value, pos |-> consume_numeric_suffix(expr, digits_end),
                  valid |-> st.valid, ub |-> st.ub]
    ELSE LET digits_end == DigitsEnd(expr, start, FALSE)
             value == stoll(Substr(expr, start, digits_end - start), 10, 1, 0)
         IN IF start = digits_end THEN Invalid(st, digits_end)
            ELSE IF value = -1 THEN Invalid(st, digits_end)
            ELSE [value |-> value, pos |-> consume_numeric_suffix(expr, digits_end),
                  valid |-> st.valid, ub |-> st.ub]

\* `value op= rhs` where rhs is the result record of the operand's parse.
Combine(op, value, rhs) ==
    LET r == Arith(op, value, rhs.value) IN
    [value |-> r.value, pos |-> rhs.pos, valid |-> rhs.valid, ub |-> rhs.ub \/ r.ub]

\* The precedence levels, lowest first, named after the parse_<level>
\* functions of the code: each binary level parses an operand of the next
\* level and then loops over the operators of its own level.
Levels ==
    << "bitwise_or", "bitwise_xor", "bitwise_and", "shift", "additive",
       "multiplicative", "unary", "primary" >>

BinaryLevels == { Levels[i] : i \in 1..6 }

\* The level of the operands of a binary level.
OperandLevel(level) == Levels[(CHOOSE i \in 1..6 : Levels[i] = level) + 1]

\* The first of `tokens` that stands at pos, as match_char / match_token
\* try them in order: [op, pos]; op is "" when none matches.
RECURSIVE FirstMatch(_, _, _, _)
FirstMatch(expr, pos, tokens, i) ==
    IF i > Len(tokens) THEN [op |-> "", pos |-> pos]
    ELSE IF Substr(expr, pos, Len(tokens[i])) = tokens[i]
         THEN [op |-> tokens[i], pos |-> pos + Len(tokens[i])]
    ELSE FirstMatch(expr, pos, tokens, i + 1)

LevelTokens(level) ==
    IF level = "bitwise_or" THEN << << "|" >> >>
    ELSE IF level = "bitwise_xor" THEN << << "^" >> >>
    ELSE IF level = "bitwise_and" THEN << << "&" >> >>
    ELSE IF level = "shift" THEN << << "<", "<" >>, << ">", ">" >> >>
    ELSE IF level = "additive" THEN << << "+" >>, << "-" >> >>
    ELSE << << "*" >>, << "/" >>, << "%" >> >>

OpName(tok) ==
    IF tok = << "<", "<" >> THEN "<<"
    ELSE IF tok = << ">", ">" >> THEN ">>"
    ELSE tok[1]

\* What the head of a level's while loop finds after skip_ws:
\* [op, pos, rejected].  `||` and `&&` are rejected (m_valid = false).
MatchOperator(expr, pos0, level) ==
    LET pos == skip_ws(expr, pos0)
        m == FirstMatch(expr, pos, LevelTokens(level), 1)
        doubled == /\ level \in {"bitwise_or", "bitwise_and"}
                   /\ m.op # ""
                   /\ m.pos < Len(expr)
                   /\ At(expr, m.pos) = At(expr, pos)
    IN [op |-> IF m.op = "" THEN "" ELSE OpName(m.op),
        pos |-> IF doubled THEN pos ELSE m.pos,
        rejected |-> doubled]

RECURSIVE ParseLevel(_, _, _)
RECURSIVE LevelLoop(_, _, _)

\* parse_bitwise_or .. parse_multiplicative (levels 1..6), parse_unary and
\* parse_primary.
ParseLevel(expr, st, level) ==
    IF level \in BinaryLevels
    THEN LevelLoop(expr, ParseLevel(expr, st, OperandLevel(level)), level)
    ELSE IF level = "unary"
    THEN LET p == skip_ws(expr, st.pos)
             c == IF p < Len(expr) THEN At(expr, p) ELSE ""
         IN IF c \in {"+", "-", "~"}
            THEN LET r == ParseLevel(expr, [st EXCEPT !.pos = p + 1], "unary")
                 IN IF c = "+" THEN r
                    ELSE IF c = "-"
                         THEN [r EXCEPT !.value = Wrap(-r.value),
                                        !.ub = r.ub \/ ~InRange(-r.value)]
                    ELSE [r EXCEPT !.value = -r.value - 1]
            ELSE ParseLevel(expr, [st EXCEPT !.pos = p], "primary")
    ELSE LET open == match_char(expr, st.pos, "(") IN
         IF open.matched
         THEN LET inner == ParseLevel(expr, [st EXCEPT !.pos = open.pos], "bitwise_or")
                  close == match_char(expr, inner.pos, ")")
              IN [inner EXCEPT !.pos = close.pos,
                               !.valid = inner.valid /\ close.matched]
         ELSE parse_number(expr, [st EXCEPT !.pos = open.pos])

\* The `while (m_valid)` loop of a binary level; cur holds `value` and the
\* parser state.
LevelLoop(expr, cur, level) ==
    IF ~cur.valid THEN cur
    ELSE
    LET m == MatchOperator(expr, cur.pos, level) IN
    IF m.rejected THEN [cur EXCEPT !.pos = m.pos, !.valid = FALSE]
    ELSE IF m.op = "" THEN [cur EXCEPT !.pos = m.pos]
    ELSE
    LET rhs == ParseLevel(expr, [cur EXCEPT !.pos = m.pos], OperandLevel(level)) IN
    IF m.op \in {"/", "%"} /\ rhs.value = 0
    THEN [value |-> 0, pos |-> rhs.pos, valid |-> FALSE, ub |-> rhs.ub]
    ELSE LevelLoop(expr, Combine(m.op, cur.value, rhs), level)

parse_bitwise_or(expr, st) == ParseLevel(expr, st, "bitwise_or")

\* ConstantExpressionParser::parse: [has_value, value, ub].
evaluate_constant_expression(expression) ==
    LET r == parse_bitwise_or(expression, [pos |-> 0, valid |-> TRUE, ub |-> FALSE])
        end == skip_ws(expression, r.pos)
    IN IF ~r.valid \/ end # Len(expression)
       THEN [has_value |-> FALSE, value |-> 0, ub |-> r.ub]
       ELSE [has_value |-> TRUE, value |-> r.value, ub |-> r.ub]

\* ------------------------------------------------------------------------
\* evaluate_bracket_expressions
\* ------------------------------------------------------------------------

\* The inner loop that looks for the ']' closing the '[' at open.
RECURSIVE BracketClose(_, _, _)
BracketClose(text, pos, depth) ==
    IF ~(pos < Len(text) /\ depth > 0) THEN [pos |-> pos, depth |-> depth]
    ELSE LET ch == At(text, pos) IN
         IF ch = "[" THEN BracketClose(text, pos + 1, depth + 1)
         ELSE IF ch = "]"
              THEN IF depth - 1 = 0 THEN [pos |-> pos, depth |-> 0]
                   ELSE BracketClose(text, pos + 1, depth - 1)
         ELSE BracketClose(text, pos + 1, depth)

\* The replacement made without asking whether the expression has a value.
BracketReplaceUnchecked(text, open, pos, expression, maybe_value) ==
    [text |-> StrReplace(text, open + 1, Len(expression), to_string(maybe_value.value)),
     search_pos |-> open + 1 + Len(to_string(maybe_value.value)),
     finished |-> FALSE]

\* The tail of an iteration, for the pair text[open] .. text[pos]: the
\* expression between the brackets is replaced by its value if it has one.
BracketReplace(text, open, pos, expression, maybe_value) ==
    IF expression # << >> /\ maybe_value.has_value
    THEN [text |-> StrReplace(text, open + 1, Len(expression), to_string(maybe_value.value)),
          search_pos |-> open + 1 + Len(to_string(maybe_value.value)),
          finished |-> FALSE]
    ELSE [text |-> text, search_pos |-> pos + 1, finished |-> FALSE]

BracketExpression(text, open, pos) ==
    BracketReplace(text, open, pos, Substr(text, open + 1, pos - open - 1),
                   evaluate_constant_expression(Substr(text, open + 1, pos - open - 1)))

\* An iteration once `open` was found; close is where the depth scan stopped.
BracketPair(text, open, close) ==
    IF close.depth # 0 \/ close.pos >= Len(text) \/ At(text, close.pos) # "]"
    THEN [text |-> text, search_pos |-> open + 1, finished |-> FALSE]
    ELSE BracketExpression(text, open, close.pos)

BracketOpen(text, search_pos, open) ==
    IF open = NPOS
    THEN [text |-> text, search_pos |-> search_pos, finished |-> TRUE]
    ELSE IF \/ (open > 0 /\ At(text, open - 1) = "[")
            \/ (open + 1 < Len(text) /\ At(text, open + 1) = "[")
    THEN [text |-> text, search_pos |-> open + 1, finished |-> FALSE]
    ELSE BracketPair(text, open, BracketClose(text, open + 1, 1))

\* One iteration of the while loop of evaluate_bracket_expressions:
\* the text and search_pos it leaves, and whether the loop is left.
BracketIteration(text, search_pos) ==
    BracketOpen(text, search_pos, StrFind(text, << "[" >>, search_pos))

RECURSIVE BracketLoop(_, _)

\* What follows an iteration: break, or the next iteration.
BracketContinue(it) ==
    IF it.finished THEN it.text ELSE BracketLoop(it.text, it.search_pos)

BracketLoop(text, search_pos) ==
    IF ~(search_pos < Len(text)) THEN text
    ELSE BracketContinue(BracketIteration(text, search_pos))

evaluate_bracket_expressions(text) == BracketLoop(text, 0)

\* ------------------------------------------------------------------------
\* convert_template_body_placeholder, generate_placeholder_definition
\* ------------------------------------------------------------------------

RECURSIVE skip_spaces(_, _)
skip_spaces(result, idx) ==
    IF idx < Len(result) /\ isspace(At(result, idx)) THEN skip_spaces(result, idx + 1)
    ELSE idx

\* Whether the qualifier word stands at idx, followed by no identifier character.
QualifierAt(result, idx, word) ==
    /\ Substr(result, idx, Len(word)) = word
    /\ (idx + Len(word) >= Len(result) \/ ~is_identifier_char(At(result, idx + Len(word))))

RECURSIVE skip_qualifiers(_, _)
skip_qualifiers(result, idx) ==
    IF ~(idx < Len(result)) THEN idx
    ELSE
    LET i1 == IF QualifierAt(result, idx, KwConst)
              THEN skip_spaces(result, idx + 5) ELSE idx
        i2 == IF QualifierAt(result, i1, KwVolatile)
              THEN skip_spaces(result, i1 + 8) ELSE i1
    IN IF i2 # idx THEN skip_qualifiers(result, i2) ELSE idx

Void    == << "v","o","i","d" >>
VoidPtr == << "v","o","i","d","*" >>

\* Whether a '*' follows the parameter at match_pos (after spaces and
\* const / volatile qualifiers).
PointerAfter(result, pointer_check) ==
    pointer_check < Len(result) /\ At(result, pointer_check) = "*"

\* std::string replacement = pointer_after ? "void" : "void*";
PlaceholderTypeVoid(pointer_after) == Void

PlaceholderType(pointer_after) == IF pointer_after THEN Void ELSE VoidPtr

\* The replacement with the pointer check left out.
PlaceholderReplacementUnchecked(result, param, match_pos) ==
    IF param.m_kind = "Type" THEN VoidPtr ELSE << "1" >>

\* The text that replaces the occurrence of param at match_pos.
PlaceholderReplacement(result, param, match_pos) ==
    IF param.m_kind = "Type"
    THEN PlaceholderType(
             PointerAfter(result,
                 skip_spaces(result,
                     skip_qualifiers(result,
                         skip_spaces(result, match_pos + Len(param.m_name))))))
    ELSE << "1" >>

RECURSIVE PlaceholderParameter(_, _, _)

PlaceholderReplaced(result, param, match_pos, replacement) ==
    PlaceholderParameter(StrReplace(result, match_pos, Len(param.m_name), replacement),
                         param, match_pos + Len(replacement))

PlaceholderMatch(result, param, match_pos) ==
    IF match_pos = NPOS THEN result
    ELSE PlaceholderReplaced(result, param, match_pos,
                             PlaceholderReplacement(result, param, match_pos))

\* The while loop over the occurrences of one parameter.
PlaceholderParameter(result, param, search_pos) ==
    IF ~(search_pos < Len(result)) THEN result
    ELSE PlaceholderMatch(result, param, find_identifier(result, param.m_name, search_pos))

RECURSIVE PlaceholderParameters(_, _, _)
PlaceholderParameters(result, params, i) ==
    IF i > Len(params) THEN result
    ELSE PlaceholderParameters(PlaceholderParameter(result, params[i], 0), params, i + 1)

convert_template_body_placeholder(def) ==
    evaluate_bracket_expressions(PlaceholderParameters(def.m_body, def.m_parameters, 1))

\* The placeholder text, given the converted body.
PlaceholderDefinition(def, converted_body) ==
    def.m_indentation \o def.m_keyword \o << " " >> \o def.m_name
        \o def.m_between \o << "{" >> \o converted_body \o def.m_closing
        \o (IF /\ converted_body # << >>
               /\ converted_body[Len(converted_body)] # "\n"
               /\ (def.m_closing = << >> \/ def.m_closing[1] # "\n")
            THEN << "\n" >> ELSE << >>)

generate_placeholder_definition(def) ==
    PlaceholderDefinition(def, convert_template_body_placeholder(def))

\* ------------------------------------------------------------------------
\* DefinitionLookup
\*
\* A TemplateDefinition* is the index of the definition in `definitions`;
\* nullptr is NullDef.  m_by_full maps a full name to a pointer, m_by_name a
\* short name to the pointers in registration order.
\* ------------------------------------------------------------------------

NullDef == 0

full_name(def) ==
    IF def.m_scope_path = << >> THEN def.m_name
    ELSE def.m_scope_path \o << "." >> \o def.m_name

EmptyLookup == [m_by_full |-> << >>, m_by_name |-> << >>]

register_definition(lookup, defs, ptr) ==
    LET def == defs[ptr]
        full == full_name(def)
        others == IF def.m_name \in DOMAIN lookup.m_by_name
                  THEN lookup.m_by_name[def.m_name] ELSE << >>
    IN [m_by_full |-> (full :> ptr) @@ lookup.m_by_full,
        m_by_name |-> (def.m_name :> Append(others, ptr)) @@ lookup.m_by_name]

\* `definitions.reserve(16)`: the storage of the definitions container holds
\* this many definitions before it is allocated anew.
ReservedDefinitions == 16

\* The capacity of the storage that holds n definitions appended one at a
\* time: a full storage is replaced by one of twice its capacity, and the
\* definitions move there.
RECURSIVE Grown(_, _)
Grown(capacity, n) == IF n <= capacity THEN capacity ELSE Grown(2 * capacity, n)

Capacity(n) == Grown(ReservedDefinitions, n)

\* A reference registered as ptr was taken by `definitions.back()` when the
\* container held ptr definitions, into the storage of that time.  It
\* designates a stored definition as long as the container still uses that
\* storage; afterwards it dangles.
StoredAt(defs, ptr) == Capacity(ptr) = Capacity(Len(defs))

\* The lambda score_candidate of resolve.
score_candidate(def, prefix, current_scope) ==
    LET sp == def.m_scope_path
        pos == StrRFind(sp, prefix)
    IN
    IF prefix # << >> /\ sp = prefix THEN 1000 + Len(sp)
    ELSE IF /\ prefix # << >>
            /\ Len(sp) >= Len(prefix)
            /\ pos # NPOS
            /\ pos + Len(prefix) = Len(sp)
            /\ (pos = 0 \/ At(sp, pos - 1) = ".")
         THEN 700 + Len(prefix)
    ELSE IF sp = current_scope THEN 800 + Len(sp)
    ELSE IF /\ sp # << >>
            /\ current_scope # << >>
            /\ OccursAt(current_scope, sp, 0)
            /\ (Len(current_scope) = Len(sp) \/ At(current_scope, Len(sp)) = ".")
         THEN 400 + Len(sp)
    ELSE IF sp = << >> THEN 100
    ELSE 0

\* The for loop of resolve over the candidates of one short name.
RECURSIVE ResolveLoop(_, _, _, _, _, _, _)
ResolveLoop(defs, candidates, i, prefix, current_scope, best, best_score) ==
    IF i > Len(candidates) THEN best
    ELSE LET score == score_candidate(defs[candidates[i]], prefix, current_scope)
             nbest == IF score > best_score THEN candidates[i] ELSE best
             nscore == IF score > best_score THEN score ELSE best_score
         IN IF score >= 1000 THEN nbest
            ELSE ResolveLoop(defs, candidates, i + 1, prefix, current_scope, nbest, nscore)

TokenPrefix(token) ==
    LET dot == StrRFind(token, << "." >>)
    IN IF dot = NPOS THEN << >> ELSE Substr(token, 0, dot)

TokenBase(token) ==
    LET dot == StrRFind(token, << "." >>)
    IN IF dot = NPOS THEN token ELSE SubstrFrom(token, dot + 1)

resolve(lookup, defs, token, current_scope) ==
    IF StrRFind(token, << "." >>) # NPOS /\ token \in DOMAIN lookup.m_by_full
    THEN lookup.m_by_full[token]
    ELSE IF TokenBase(token) \notin DOMAIN lookup.m_by_name THEN NullDef
    ELSE ResolveLoop(defs, lookup.m_by_name[TokenBase(token)], 1,
                     TokenPrefix(token), current_scope, NullDef, 0)

\* ------------------------------------------------------------------------
\* register_specialization
\* ------------------------------------------------------------------------

ScopeHint(def, prefix, current_scope) ==
    IF prefix # << >> THEN sanitize_scope_name(prefix)
    ELSE IF def.m_scope_path # << >> THEN sanitize_scope_name(def.m_scope_path)
    ELSE sanitize_scope_name(current_scope)

RECURSIVE SanitizedArguments(_)
SanitizedArguments(args) ==
    IF args = << >> THEN << >>
    ELSE << "_" >> \o sanitize_token(args[1]) \o SanitizedArguments(Tail(args))

SanitizedName(def, scope_token, args) ==
    def.m_name
        \o (IF scope_token # << >> THEN << "_" >> \o scope_token ELSE << >>)
        \o SanitizedArguments(args)

\* m_between, m_body and m_closing of the definition with the parameters
\* replaced by the arguments.
Instantiated(def, args) ==
    [ field \in {"m_between", "m_body", "m_closing"} |->
          replace_parameters(def[field], def.m_parameters, args) ]

\* The TemplateSpecialization the function builds for a new signature.
NewSpecialization(def, args, scope_token, instantiated) ==
    [ m_arguments |-> args,
      m_sanitized_name |-> SanitizedName(def, scope_token, args),
      m_between |-> instantiated.m_between,
      m_body |-> evaluate_bracket_expressions(instantiated.m_body),
      m_closing |-> instantiated.m_closing ]

\* The specialization stored in front of the others.
WithSpecializationFirst(def, signature, spec) ==
    [def |-> [def EXCEPT
                !.m_specialization_index = (signature :> Len(def.m_specializations)) @@ @,
                !.m_specializations = << spec >> \o @],
     at |-> 1]

\* def with the specialization stored under the signature.
WithSpecialization(def, signature, spec) ==
    [def |-> [def EXCEPT
                !.m_specialization_index = (signature :> Len(def.m_specializations)) @@ @,
                !.m_specializations = Append(@, spec)],
     at |-> Len(def.m_specializations) + 1]

RegisterSigned(def, args, scope_token, signature) ==
    IF signature \in DOMAIN def.m_specialization_index
    THEN [def |-> def, at |-> def.m_specialization_index[signature] + 1]
    ELSE WithSpecialization(def, signature,
             NewSpecialization(def, args, scope_token, Instantiated(def, args)))

RegisterScoped(def, args, scope_token) ==
    RegisterSigned(def, args, scope_token,
                   scope_token \o << "|" >> \o make_signature(args))

\* The definition after the call, and the position in its m_specializations
\* of the specialization the call returns a reference to.
register_specialization(def, args, prefix, current_scope) ==
    RegisterScoped(def, args, ScopeHint(def, prefix, current_scope))

\* ------------------------------------------------------------------------
\* current_indent
\* ------------------------------------------------------------------------

RECURSIVE IndentLoop(_, _)
IndentLoop(text, idx) ==
    IF idx < Len(text) /\ At(text, idx) \in {" ", "\t"}
    THEN << At(text, idx) >> \o IndentLoop(text, idx + 1)
    ELSE << >>

current_indent(text) ==
    LET newline == StrRFind(text, << "\n" >>)
    IN IF newline = NPOS THEN << >> ELSE IndentLoop(text, newline + 1)

\* ------------------------------------------------------------------------
\* process_file_content: the state of the scan
\*
\* A scan state is a record of the locals of process_file_content:
\*   text, pos, output, brace_depth, scope_stack, pending_scope,
\*   definitions, lookup, had_templates (result.m_had_templates)
\* and two history fields that the code does not have:
\*   frames_pushed  the number of scope frames pushed so far; a frame's `id`
\*                  is its rank in that order (the root frame has id 0);
\*   use_sites      one entry per resolved use site, in order: the sanitized
\*                  name, the id of the frame on top of the stack, whether
\*                  the declaration was inserted there, and the offsets in
\*                  `output` of the declaration and of the reference.
\* ------------------------------------------------------------------------

RootFrame ==
    [m_name |-> << >>, m_path |-> << >>, m_depth |-> 0,
     m_emitted_specializations |-> {}, id |-> 0]

IdlePending ==
    [m_expect_name |-> FALSE, m_expect_brace |-> FALSE,
     m_keyword |-> << >>, m_name |-> << >>]

ScanStart(text) ==
    [ text |-> text,
      pos |-> 0,
      output |-> << >>,
      brace_depth |-> 0,
      scope_stack |-> << RootFrame >>,
      pending_scope |-> IdlePending,
      definitions |-> << >>,
      lookup |-> EmptyLookup,
      had_templates |-> FALSE,
      frames_pushed |-> 0,
      use_sites |-> << >> ]

CharAt(st) == At(st.text, st.pos)

Top(st) == st.scope_stack[Len(st.scope_stack)]

\* output.append(text, start, n): n is clamped to the end of text.
AppendSource(st, start, end) == st.output \o Substr(st.text, start, end - start)

\* ---- which branch of the loop body the character at pos takes ----------

AtString(st) == CharAt(st) \in {"\"", "'"}

AtLineComment(st) ==
    CharAt(st) = "/" /\ st.pos + 1 < Len(st.text) /\ At(st.text, st.pos + 1) = "/"

AtBlockComment(st) ==
    CharAt(st) = "/" /\ st.pos + 1 < Len(st.text) /\ At(st.text, st.pos + 1) = "*"

\* The result of the definition parse the loop attempts at an identifier
\* start (and at no other character).
DefinitionAt(st) ==
    IF is_identifier_start(CharAt(st))
    THEN parse_template_definition(st.text, st.pos)
    ELSE NoDefinition

\* The loop body reaches the token branch.
AtToken(st) ==
    /\ is_type_char(CharAt(st))
    /\ ~DefinitionAt(st).ok

RECURSIVE TypeTokenEnd(_, _)
TypeTokenEnd(text, pos) ==
    IF pos < Len(text) /\ is_type_char(At(text, pos)) THEN TypeTokenEnd(text, pos + 1)
    ELSE pos

TokenEnd(st) == TypeTokenEnd(st.text, st.pos)

TokenAt(st) == Substr(st.text, st.pos, TokenEnd(st) - st.pos)

IsScopeKeyword(token) == token \in {KwNamespace, KwStruct, KwClass}

\* pending_scope after `if (pending_scope.m_expect_name) { ... }`.
PendingAfterToken(st) ==
    IF st.pending_scope.m_expect_name
    THEN [st.pending_scope EXCEPT !.m_name = TokenAt(st),
                                  !.m_expect_name = FALSE,
                                  !.m_expect_brace = TRUE]
    ELSE st.pending_scope

\* The position of the '<' that follows the token, or NPOS.
LookaheadLt(st) ==
    LET lookahead == skip_whitespace_and_comments(st.text, TokenEnd(st))
    IN IF lookahead < Len(st.text) /\ At(st.text, lookahead) = "<"
       THEN lookahead ELSE NPOS

ArgumentsAt(st) == parse_template_arguments(st.text, LookaheadLt(st))

\* The definition the use site at pos resolves to, or NullDef.
ResolvedAt(st) ==
    IF ArgumentsAt(st).args = << >> THEN NullDef
    ELSE resolve(st.lookup, st.definitions, TokenAt(st), Top(st).m_path)

AtScopeKeyword(st) == AtToken(st) /\ IsScopeKeyword(TokenAt(st))

AtUseSite(st) ==
    /\ AtToken(st)
    /\ ~IsScopeKeyword(TokenAt(st))
    /\ LookaheadLt(st) # NPOS

\* The references that the use site at pos reads through: the one found by
\* full name, which register_specialization is called on, or else the
\* candidates of the base name, the first of which resolve always scores.
ReferencesRead(st) ==
    IF ArgumentsAt(st).args = << >> THEN << >>
    ELSE IF /\ StrRFind(TokenAt(st), << "." >>) # NPOS
            /\ TokenAt(st) \in DOMAIN st.lookup.m_by_full
         THEN << st.lookup.m_by_full[TokenAt(st)] >>
    ELSE IF TokenBase(TokenAt(st)) \in DOMAIN st.lookup.m_by_name
         THEN st.lookup.m_by_name[TokenBase(TokenAt(st))]
    ELSE << >>

\* The use site at pos reads through a dangling reference (the earliest
\* registered one dangles whenever any does): its behaviour is undefined.
ReadsDangling(st) ==
    /\ ReferencesRead(st) # << >>
    /\ ~StoredAt(st.definitions, ReferencesRead(st)[1])

AtDanglingUse(st) == AtUseSite(st) /\ ReadsDangling(st)

AtResolvedUse(st) == AtUseSite(st) /\ ~ReadsDangling(st) /\ ResolvedAt(st) # NullDef

AtUnresolvedUse(st) == AtUseSite(st) /\ ~ReadsDangling(st) /\ ResolvedAt(st) = NullDef

AtPlainToken(st) ==
    /\ AtToken(st)
    /\ ~IsScopeKeyword(TokenAt(st))
    /\ LookaheadLt(st) = NPOS

AtOther(st) ==
    /\ ~AtString(st) /\ ~AtLineComment(st) /\ ~AtBlockComment(st)
    /\ ~is_identifier_start(CharAt(st))
    /\ CharAt(st) \notin {"{", "}", ";"}
    /\ ~isspace(CharAt(st))
    /\ ~is_type_char(CharAt(st))

\* ---- what each branch does ---------------------------------------------

CopyString(st) ==
    LET end == skip_string_literal(st.text, st.pos, CharAt(st))
    IN [st EXCEPT !.output = AppendSource(st, st.pos, end), !.pos = end]

CopyLineCommentSkipped(st) ==
    [st EXCEPT !.pos = ToLineEnd(st.text, st.pos + 2)]

CopyLineComment(st) ==
    LET end == ToLineEnd(st.text, st.pos + 2)
    IN [st EXCEPT !.output = AppendSource(st, st.pos, end), !.pos = end]

CopyBlockComment(st) ==
    LET end == PastBlockComment(st.text, st.pos + 2)
    IN [st EXCEPT !.output = AppendSource(st, st.pos, end), !.pos = end]

\* output after `output += placeholder` and the newline that may follow it.
PlaceholderAppended(output, placeholder) ==
    IF placeholder # << >> /\ placeholder[Len(placeholder)] # "\n"
    THEN output \o placeholder \o << "\n" >>
    ELSE output \o placeholder

PlaceholderText(output, stored) ==
    PlaceholderAppended(output, generate_placeholder_definition(stored))

\* The state after the definition branch; def is the parsed definition with
\* its scope path set.
StoreDefinition(st, def) ==
    [st EXCEPT
       !.definitions = Append(st.definitions, [def EXCEPT !.m_placeholder_generated = TRUE]),
       !.lookup = register_definition(st.lookup, Append(st.definitions, def),
                                      Len(st.definitions) + 1),
       !.had_templates = TRUE,
       !.output = IF def.m_placeholder_generated THEN st.output
                  ELSE PlaceholderText(st.output, def),
       !.pos = def.m_end,
       !.pending_scope = IdlePending]

TakeDefinition(st) ==
    StoreDefinition(st, [DefinitionAt(st).def EXCEPT !.m_scope_path = Top(st).m_path])

\* The frame with the brace depth before the increment as its depth.
PushedFrameBefore(st) ==
    [m_name |-> st.pending_scope.m_name, m_path |-> st.pending_scope.m_name,
     m_depth |-> st.brace_depth, m_emitted_specializations |-> {},
     id |-> st.frames_pushed + 1]

\* The frame pushed at a '{' that follows a pending scope name.
PushedFrame(st) ==
    LET parent == Top(st).m_path
        name == st.pending_scope.m_name
        new_path == IF name # << >>
                    THEN (IF parent # << >> THEN parent \o << "." >> ELSE << >>) \o name
                    ELSE parent
    IN [m_name |-> name, m_path |-> new_path, m_depth |-> st.brace_depth + 1,
        m_emitted_specializations |-> {}, id |-> st.frames_pushed + 1]

OpenBrace(st) ==
    IF st.pending_scope.m_expect_brace
    THEN [st EXCEPT !.output = Append(st.output, "{"),
                    !.pos = st.pos + 1,
                    !.brace_depth = st.brace_depth + 1,
                    !.scope_stack = Append(st.scope_stack, PushedFrame(st)),
                    !.frames_pushed = st.frames_pushed + 1,
                    !.pending_scope = IdlePending]
    ELSE [st EXCEPT !.output = Append(st.output, "{"),
                    !.pos = st.pos + 1,
                    !.brace_depth = st.brace_depth + 1]

\* while (scope_stack.size() > 1 && scope_stack.back().m_depth > brace_depth) pop_back();
RECURSIVE PopFrames(_, _)
PopFrames(scope_stack, brace_depth) ==
    IF Len(scope_stack) > 1 /\ scope_stack[Len(scope_stack)].m_depth > brace_depth
    THEN PopFrames(SubSeq(scope_stack, 1, Len(scope_stack) - 1), brace_depth)
    ELSE scope_stack

CloseBrace(st) ==
    LET depth == IF st.brace_depth > 0 THEN st.brace_depth - 1 ELSE st.brace_depth
    IN [st EXCEPT !.output = Append(st.output, "}"),
                  !.pos = st.pos + 1,
                  !.brace_depth = depth,
                  !.scope_stack = PopFrames(st.scope_stack, depth),
                  !.pending_scope = IdlePending]

Semicolon(st) ==
    [st EXCEPT !.output = Append(st.output, ";"),
               !.pos = st.pos + 1,
               !.pending_scope = IdlePending]

CopyCharacter(st) ==
    [st EXCEPT !.output = Append(st.output, CharAt(st)), !.pos = st.pos + 1]

ScopeKeyword(st) ==
    [st EXCEPT !.pending_scope = [m_expect_name |-> TRUE, m_expect_brace |-> FALSE,
                                  m_keyword |-> TokenAt(st), m_name |-> << >>],
               !.output = st.output \o TokenAt(st),
               !.pos = TokenEnd(st)]

\* output with the '}' the code adds when the closing text does not start
\* with one (after spaces).
ClosedBody(o2, closing, first_non_space) ==
    IF first_non_space >= Len(closing) \/ At(closing, first_non_space) # "}"
    THEN Append(o2, "}") ELSE o2

WithNewline(o) == IF o = << >> \/ o[Len(o)] # "\n" THEN Append(o, "\n") ELSE o

DeclarationAt(output, indent, keyword, specialization) ==
    WithNewline(
        ClosedBody((IF output # << >> /\ output[Len(output)] # "\n"
                    THEN Append(output, "\n") ELSE output)
                       \o indent \o keyword \o << " " >> \o specialization.m_sanitized_name
                       \o specialization.m_between \o << "{" >> \o specialization.m_body,
                   specialization.m_closing,
                   skip_spaces(specialization.m_closing, 0))
            \o specialization.m_closing)
        \o indent

\* The declaration of a specialization as the use-site branch writes it,
\* from `auto indent = current_indent(output)` to the second `output += indent`.
WithDeclaration(output, keyword, specialization) ==
    DeclarationAt(output, current_indent(output), keyword, specialization)

\* The offset in the output of WithDeclaration at which the declaration
\* (its keyword) starts.
DeclarationOffset(output) ==
    Len(current_indent(output))
        + (IF output # << >> /\ output[Len(output)] # "\n" THEN Len(output) + 1
           ELSE Len(output))

\* The insertion left out: the frame's set stays as it was.
EmittedInsertSkipped(frame, name) == frame

\* scope.m_emitted_specializations.insert(name).second
EmittedInsert(frame, name) ==
    [frame EXCEPT !.m_emitted_specializations = @ \cup {name}]

\* The state after the resolved branch: the declaration was written or not
\* (inserted), `declared` is the output before the name is appended.
UseWritten(st, ptr, out_pos, def, name, inserted, declared) ==
    [st EXCEPT
       !.definitions = [st.definitions EXCEPT ![ptr] = def],
       !.scope_stack = [st.scope_stack EXCEPT ![Len(st.scope_stack)] = EmittedInsert(@, name)],
       !.output = declared \o name,
       !.pos = out_pos,
       !.had_templates = TRUE,
       !.pending_scope = IdlePending,
       !.use_sites = Append(st.use_sites,
                         [ name |-> name,
                           frame |-> Top(st).id,
                           declared |-> inserted,
                           decl_at |-> IF inserted THEN DeclarationOffset(st.output) ELSE NPOS,
                           ref_at |-> Len(declared) ])]

UseSpecialization(st, ptr, out_pos, def, specialization, inserted) ==
    UseWritten(st, ptr, out_pos, def, specialization.m_sanitized_name, inserted,
               IF inserted
               THEN WithDeclaration(st.output, def.m_keyword, specialization)
               ELSE st.output)

UseRegistered(st, ptr, out_pos, registered) ==
    UseSpecialization(st, ptr, out_pos, registered.def,
        registered.def.m_specializations[registered.at],
        registered.def.m_specializations[registered.at].m_sanitized_name
            \notin Top(st).m_emitted_specializations)

UseArguments(st, ptr, arguments) ==
    UseRegistered(st, ptr, arguments.out_pos,
        register_specialization(st.definitions[ptr], arguments.args,
                                TokenPrefix(TokenAt(st)), Top(st).m_path))

ResolvedUse(st) == UseArguments(st, ResolvedAt(st), ArgumentsAt(st))

\* Only the token copied, the argument list dropped.
UnresolvedUseTokenOnly(st) ==
    [st EXCEPT !.pending_scope = PendingAfterToken(st),
               !.output = st.output \o TokenAt(st),
               !.pos = ArgumentsAt(st).out_pos]

UnresolvedUse(st) ==
    LET args_end == ArgumentsAt(st).out_pos
    IN [st EXCEPT !.pending_scope = PendingAfterToken(st),
                  !.output = AppendSource(st, st.pos, args_end),
                  !.pos = args_end]

PlainToken(st) ==
    [st EXCEPT !.pending_scope = PendingAfterToken(st),
               !.output = st.output \o TokenAt(st),
               !.pos = TokenEnd(st)]

\* What a use site that reads through a dangling reference can do when the
\* process goes on: the released storage still reads as the definition, or it
\* reads as something that names no definition.
DanglingOutcomes(st) ==
    { UnresolvedUse(st) }
        \cup (IF ResolvedAt(st) # NullDef THEN { ResolvedUse(st) } ELSE { })

\* One iteration of `while (pos < text.size())`, for a use site that reads
\* through stored definitions only.
ScanStep(st) ==
    IF AtString(st) THEN CopyString(st)
    ELSE IF AtLineComment(st) THEN CopyLineComment(st)
    ELSE IF AtBlockComment(st) THEN CopyBlockComment(st)
    ELSE IF DefinitionAt(st).ok THEN TakeDefinition(st)
    ELSE IF CharAt(st) = "{" THEN OpenBrace(st)
    ELSE IF CharAt(st) = "}" THEN CloseBrace(st)
    ELSE IF CharAt(st) = ";" THEN Semicolon(st)
    ELSE IF isspace(CharAt(st)) THEN CopyCharacter(st)
    ELSE IF is_type_char(CharAt(st))
         THEN IF IsScopeKeyword(TokenAt(st)) THEN ScopeKeyword(st)
              ELSE IF LookaheadLt(st) = NPOS THEN PlainToken(st)
              ELSE IF ResolvedAt(st) # NullDef THEN ResolvedUse(st)
              ELSE UnresolvedUse(st)
    ELSE CopyCharacter(st)

RECURSIVE ScanLoop(_)
ScanLoop(st) == IF st.pos < Len(st.text) THEN ScanLoop(ScanStep(st)) ELSE st

\* process_file_content without the import extraction: the final scan state
\* (output is m_processed_content, had_templates is m_had_templates).
process_file_content(text) == ScanLoop(ScanStart(text))

\* ------------------------------------------------------------------------
\* Paths
\*
\* A std::filesystem::path is the sequence of its components, each a
\* sequence of characters; every path here is absolute.  The file system
\* has no symbolic links, so that weakly_canonical is the lexical
\* normal form.
\* ------------------------------------------------------------------------

DotDot == << ".", "." >>

\* The components of a path written with '/' separators.
RECURSIVE SplitPath(_, _, _)
SplitPath(written, i, component) ==
    IF i >= Len(written) THEN << component >>
    ELSE IF At(written, i) = "/" THEN << component >> \o SplitPath(written, i + 1, << >>)
    ELSE SplitPath(written, i + 1, Append(component, At(written, i)))

\* lexically_normal of an absolute path: "" and "." are dropped and ".."
\* removes the component before it (at the root it is dropped).
RECURSIVE NormalLoop(_, _, _)
NormalLoop(path, i, done) ==
    IF i > Len(path) THEN done
    ELSE IF path[i] \in { << >>, << "." >> } THEN NormalLoop(path, i + 1, done)
    ELSE IF path[i] = DotDot
         THEN NormalLoop(path, i + 1, IF done = << >> THEN done ELSE SubSeq(done, 1, Len(done) - 1))
    ELSE NormalLoop(path, i + 1, Append(done, path[i]))

lexically_normal(path) == NormalLoop(path, 1, << >>)

parent_path(path) == IF path = << >> THEN path ELSE SubSeq(path, 1, Len(path) - 1)

\* parent / written: written replaces parent when it is absolute.
PathJoin(parent, written) ==
    IF written # << >> /\ written[1] = "/" THEN SplitPath(written, 0, << >>)
    ELSE parent \o SplitPath(written, 0, << >>)

canonicalize_path(path) == lexically_normal(path)

\* The number of leading components two paths share.
RECURSIVE CommonPrefix(_, _, _)
CommonPrefix(a, b, n) ==
    IF n < Len(a) /\ n < Len(b) /\ a[n + 1] = b[n + 1] THEN CommonPrefix(a, b, n + 1) ELSE n

\* std::filesystem::relative(path, base): a ".." for every component of
\* base below the shared prefix, then the rest of path.
relative(path, base) ==
    LET n == CommonPrefix(path, base, 0)
    IN [ i \in 1..(Len(base) - n) |-> DotDot ] \o SubSeq(path, n + 1, Len(path))

\* `relative` of process_tree: the file name of canonical_current when
\* std::filesystem::relative reports an error.
RelativeOrFilename(canonical_current, base_dir, failed) ==
    IF failed THEN SubSeq(canonical_current, Len(canonical_current), Len(canonical_current))
    ELSE relative(canonical_current, base_dir)

\* (temp_dir / relative).lexically_normal()
ProcessedPath(temp_dir, relative_path) == lexically_normal(temp_dir \o relative_path)

\* ------------------------------------------------------------------------
\* extract_imports
\* ------------------------------------------------------------------------

KwImport == << "i","m","p","o","r","t" >>

\* The loop over the characters between the quotes of an import.
RECURSIVE ImportPathEnd(_, _)
ImportPathEnd(text, pos) ==
    IF pos < Len(text) /\ At(text, pos) # "\""
    THEN ImportPathEnd(text, IF At(text, pos) = "\\" /\ pos + 1 < Len(text) THEN pos + 2 ELSE pos + 1)
    ELSE pos

\* The imports with the one written at [path_start, pos) appended.
Imported(text, file_path, imports, path_start, pos) ==
    IF pos > path_start
    THEN Append(imports,
             canonicalize_path(PathJoin(parent_path(file_path), Substr(text, path_start, pos - path_start))))
    ELSE imports

RECURSIVE ImportsLoop(_, _, _, _)

\* After the closing position of an import path was found.
ImportClosed(text, file_path, imports, path_start, pos) ==
    ImportsLoop(text, IF pos < Len(text) /\ At(text, pos) = "\"" THEN pos + 1 ELSE pos,
                file_path, Imported(text, file_path, imports, path_start, pos))

\* After the identifier `import` and the whitespace behind it.
ImportQuoted(text, file_path, imports, pos) ==
    IF pos >= Len(text) \/ At(text, pos) # "\"" THEN ImportsLoop(text, pos, file_path, imports)
    ELSE ImportClosed(text, file_path, imports, pos + 1, ImportPathEnd(text, pos + 1))

\* After an identifier [id_start, pos) was read.
ImportIdentifier(text, file_path, imports, id_start, pos) ==
    IF Substr(text, id_start, pos - id_start) # KwImport THEN ImportsLoop(text, pos, file_path, imports)
    ELSE ImportQuoted(text, file_path, imports, skip_whitespace_and_comments(text, pos))

ImportsLoop(text, pos, file_path, imports) ==
    IF pos >= Len(text) THEN imports
    ELSE IF At(text, pos) \in { "\"", "'" }
         THEN ImportsLoop(text, skip_string_literal(text, pos, At(text, pos)), file_path, imports)
    ELSE IF At(text, pos) = "/" /\ pos + 1 < Len(text) /\ At(text, pos + 1) = "/"
         THEN ImportsLoop(text, ToLineEnd(text, pos + 2), file_path, imports)
    ELSE IF At(text, pos) = "/" /\ pos + 1 < Len(text) /\ At(text, pos + 1) = "*"
         THEN ImportsLoop(text, PastBlockComment(text, pos + 2), file_path, imports)
    ELSE IF ~is_identifier_start(At(text, pos)) THEN ImportsLoop(text, pos + 1, file_path, imports)
    ELSE ImportIdentifier(text, file_path, imports, pos, IdentifierEnd(text, pos))

extract_imports(text, file_path) == ImportsLoop(text, 0, file_path, << >>)

\* ------------------------------------------------------------------------
\* Input files of the scan
\* ------------------------------------------------------------------------

\* The largest number of items that follow the header of a generated file.
MaxItems == 3

RECURSIVE Flatten(_)
Flatten(seqs) == IF seqs = << >> THEN << >> ELSE seqs[1] \o Flatten(Tail(seqs))

TypenameT == KwTypename \o << " ", "T" >>

\* struct B<typename T>{T v;};
DefB ==
    KwStruct \o << " ", "B", "<" >> \o TypenameT \o << ">", "{", "T", " ", "v", ";", "}", ";" >>

\* struct A<typename T>{struct B<typename T>{T v;};T t;};   (a nested definition)
DefNested ==
    KwStruct \o << " ", "A", "<" >> \o TypenameT \o << ">", "{" >> \o DefB
        \o << "T", " ", "t", ";", "}", ";" >>

ItemUse        == << "B", "<", "i", ">", " ", "x", ";" >>
ItemUnresolved == << "U", "<", "i", ">", " ", "y", ";" >>
ItemScope      == KwStruct \o << " ", "S", "{" >>
ItemOpen       == << "{" >>
ItemClose      == << "}" >>
ItemNewline    == << "\n" >>

Headers == { << >>, DefB, DefB \o ItemNewline, DefNested }

Items == { DefB, ItemUse, ItemUnresolved, ItemScope, ItemOpen, ItemClose }

ItemSequences == UNION { [1..n -> Items] : n \in 0..MaxItems }

GeneratedFiles == { h \o Flatten(s) : h \in Headers, s \in ItemSequences }

\* Scenario S1 in the syntax the definition parser accepts:
\*   struct Box<typename T> { T value; };
\*   Box<int> b; Box<int> c;
BoxUses ==
    << "B","o","x","<","i","n","t",">"," ","b",";"," ",
       "B","o","x","<","i","n","t",">"," ","c",";" >>

FileBox ==
    KwStruct \o << " ","B","o","x","<" >> \o TypenameT
        \o << ">"," ","{"," ","T"," ","v","a","l","u","e",";"," ","}",";","\n" >>
        \o BoxUses

\* Scenario S1 as written in the documented syntax:
\*   template<typename T> struct Box { T value; };
\*   Box<int> b; Box<int> c;
FileBoxDocumented ==
    KwTemplate \o << "<" >> \o TypenameT \o << ">", " " >> \o KwStruct
        \o << " ","B","o","x"," ","{"," ","T"," ","v","a","l","u","e",";"," ","}",";","\n" >>
        \o BoxUses

\* A definition followed by use sites inside a line comment, a block
\* comment, a string and a character literal, and one outside them:
\*   struct B<typename T>{T v;};//B<i>
\*   /*B<i>*/"B<i>"'B'=B<i> z;
FileLexical ==
    DefB \o << "/", "/" >> \o << "B", "<", "i", ">" >> \o << "\n" >>
        \o << "/", "*", "B", "<", "i", ">", "*", "/" >>
        \o << "\"", "B", "<", "i", ">", "\"" >>
        \o << "'", "B", "'", "=" >>
        \o << "B", "<", "i", ">", " ", "z", ";" >>

\* A definition used with the arguments 1 and -1:
\*   struct B<typename T>{T v;};B<1> x;B<-1> y;
FileSigned ==
    DefB \o << "B", "<", "1", ">", " ", "x", ";" >>
         \o << "B", "<", "-", "1", ">", " ", "y", ";" >>

\* A use site inside a plain brace block and one after the block:
\*   struct B<typename T>{T v;};{B<i> x;}B<i> x;
FileBlock == DefB \o ItemOpen \o ItemUse \o ItemClose \o ItemUse

\* A definition inside the scope S and a use site after the scope is closed:
\*   struct S{struct B<typename T>{T v;};}B<i> x;
FileScoped == ItemScope \o DefB \o ItemClose \o ItemUse

\* One definition more than the reserved storage holds, the first of them in
\* the scope S, then a use site that names the first by its full name:
\*   struct S{struct B<typename T>{T v;};}
\*   struct B<typename T>{T v;}; ... (16 times)
\*   S.B<i> x;
FileMany ==
    ItemScope \o DefB \o ItemClose
        \o Flatten([k \in 1..ReservedDefinitions |-> DefB])
        \o << "S", ".", "B", "<", "i", ">", " ", "x", ";" >>

Holder == << "H", "o", "l", "d", "e", "r" >>

HolderDefinition(member) ==
    KwStruct \o << " " >> \o Holder \o << "<" >> \o TypenameT
        \o << ">", "{", "T", " ", member, ";", "}", ";" >>

HolderUse(variable) == Holder \o << "<", "i", "n", "t", ">", " ", variable, ";" >>

\* A template defined at file scope and inside namespace ns { struct S { } },
\* then a use by the full name of the inner one and a use by the short name:
\*   struct Holder<typename T>{T v;};
\*   namespace ns{struct S{struct Holder<typename T>{T w;};}}
\*   ns.S.Holder<int> a;Holder<int> b;
FileHolder ==
    HolderDefinition("v")
        \o KwNamespace \o << " ", "n", "s", "{" >> \o ItemScope
        \o HolderDefinition("w") \o << "}", "}" >>
        \o << "n", "s", ".", "S", "." >> \o HolderUse("a")
        \o HolderUse("b")

InputFiles ==
    GeneratedFiles
        \cup { FileBox, FileBoxDocumented, FileLexical, FileSigned, FileBlock, FileScoped,
               FileMany, FileHolder }

\* struct B<typename T,int N>{ ... };   (a Type and a NonType parameter)
DefinitionOf(body) ==
    KwStruct \o << " ", "B", "<" >> \o TypenameT \o << ",", "i", "n", "t", " ", "N", ">", "{" >>
        \o body \o << "}", ";" >>

\* The words a generated body is written from: the two parameter names, a
\* space, a pointer star, a qualifier and a bracket expression over N.
BodyWords == { << "T" >>, << "N" >>, << " " >>, << "*" >>, KwConst, << "[", "N", "+", "1", "]" >> }

GeneratedBodies == { Flatten(ws) : ws \in UNION { [1..n -> BodyWords] : n \in 0..MaxItems } }

\* T* ptr; T value;char data[N * 2 + 1];
BodyExamples ==
    << "T", "*", " ", "p", "t", "r", ";", " ", "T", " ", "v", "a", "l", "u", "e", ";",
       "c", "h", "a", "r", " ", "d", "a", "t", "a",
       "[", "N", " ", "*", " ", "2", " ", "+", " ", "1", "]", ";" >>

\* T const volatile*p;T volatile x;constT y;N T
BodyQualified ==
    << "T", " " >> \o KwConst \o << " " >> \o KwVolatile \o << "*", "p", ";" >>
        \o << "T", " " >> \o KwVolatile \o << " ", "x", ";" >>
        \o KwConst \o << "T", " ", "y", ";", "N", " ", "T" >>

\* What follows the definition of B in a file about scopes: a scope keyword
\* with the name D, a base, a resolved and an unresolved use site, an
\* attribute, and the characters that open, close and end.
ScopeItems ==
    { KwStruct \o << " ", "D" >>,
      << " ", ":", " ", "Q" >>,
      << " ", "B", "<", "i", ">" >>,
      << " ", "U", "<", "i", ">" >>,
      << "[", "[", "a", "]", "]" >>,
      << "{" >>, << "}" >>, << ";" >> }

\* struct B<typename T>{T v;};struct D : B<i> {struct C<typename T>{T w;};};C<i> y;
FileDerived ==
    DefB \o KwStruct \o << " ", "D", " ", ":", " ", "B", "<", "i", ">", " ", "{" >>
        \o KwStruct \o << " ", "C", "<" >> \o TypenameT \o << ">", "{", "T", " ", "w", ";", "}", ";" >>
        \o << "}", ";", "C", "<", "i", ">", " ", "y", ";" >>

ScopeFiles ==
    { DefB \o Flatten(s) : s \in UNION { [1..n -> ScopeItems] : n \in 0..MaxItems } }
        \cup { FileDerived }

\* What a file about the ends of lexical elements is written from: the
\* characters that open a string and a character literal, a backslash, the
\* openings of both comments, a use site and a definition cut short at
\* `<` and at `{`, a letter and a line end.
LexicalItems ==
    { << "\"" >>, << "'" >>, << "\\" >>, << "/", "*" >>, << "/", "/" >>,
      << "B", "<" >>, << "B", "<", "i" >>,
      KwStruct \o << " ", "B", "<" >> \o TypenameT,
      KwStruct \o << " ", "B", "<" >> \o TypenameT \o << ">", "{", "T", " ", "v", ";" >>,
      << "a" >>, << "\n" >> }

LexicalFiles ==
    { h \o Flatten(s) : h \in { << >>, DefB }, s \in UNION { [1..n -> LexicalItems] : n \in 0..MaxItems } }

PlaceholderFiles == { DefinitionOf(body) : body \in GeneratedBodies \cup { BodyExamples, BodyQualified } }

\* ------------------------------------------------------------------------
\* The scan of one file as a state machine
\* ------------------------------------------------------------------------

\* The locals of process_file_content; frames_pushed numbers the scope
\* frames in the order they are pushed and use_sites records the resolved
\* use sites (history, not read by the scan).
VARIABLES
    text, pos, output, brace_depth, scope_stack, pending_scope,
    definitions, lookup, had_templates, frames_pushed, use_sites

\* The scope whose `{` is awaited (history, not read by the scan): set by a
\* scope keyword, named by the token after it, and given up at `;`, at `}`
\* and at a parsed definition.
VARIABLES awaited

\* Whether the process has ended inside process_file_content: reading a
\* definition that is no longer stored may end it.
VARIABLES crashed

\* A call of evaluate_constant_expression: the expression text, the syntax
\* tree it was written from (history) and the std::optional returned.
VARIABLES expression, syntax, maybe_value

\* A call of evaluate_bracket_expressions: the text passed by reference,
\* its value at the call (history) and whether the call has returned.
VARIABLES bracket_text, bracket_source, bracket_returned

\* A call of process_tree: the file system it reads (path -> content), its
\* argument, where the call stands, its locals queue and visited, the
\* PreprocessResult it builds, and the directories and files below the
\* temporary directory.  reports records what process_file_content
\* reported for each file read (history).  processed_files holds, for each
\* path, what process_file_content returns for the content at that path.
VARIABLES files, root_path, tree_pc, queue, visited, result, temp_dirs, staged, reports
VARIABLES processed_files

\* A call of replace_parameters: its arguments text (by value), params and
\* args, the text at the call (history), the loop variables i and pos, and
\* where the call stands.
VARIABLES replace_text, replace_params, replace_args, replace_source, replace_i, replace_pos, replace_pc

\* Calls of register_specialization on one definition: the definition, the
\* position in m_specializations of the entry the last call returned, and
\* (history) the signature the last call asked for, the signatures asked
\* for so far and the number of calls.
VARIABLES register_def, register_returned, register_signature, register_signatures, register_calls

scan_vars ==
    << text, pos, output, brace_depth, scope_stack, pending_scope,
       definitions, lookup, had_templates, frames_pushed, use_sites, awaited,
       crashed >>

eval_vars == << expression, syntax, maybe_value >>

bracket_vars == << bracket_text, bracket_source, bracket_returned >>

tree_vars ==
    << files, root_path, tree_pc, queue, visited, result, temp_dirs, staged, reports,
       processed_files >>

replace_vars ==
    << replace_text, replace_params, replace_args, replace_source, replace_i, replace_pos,
       replace_pc >>

register_vars ==
    << register_def, register_returned, register_signature, register_signatures,
       register_calls >>

call_vars == << replace_vars, register_vars >>

vars == << scan_vars, eval_vars, bracket_vars, tree_vars, call_vars >>

\* A PreprocessResult as default-constructed.
EmptyResult ==
    [ m_original_root |-> << >>,
      m_processed_root |-> << >>,
      m_temp_directory |-> << >>,
      m_original_to_processed |-> << >>,
      m_processed_to_original |-> << >>,
      m_had_templates |-> FALSE ]

\* No call of process_tree is under way.
TreeIdle ==
    /\ files = << >>
    /\ root_path = << >>
    /\ tree_pc = "idle"
    /\ queue = << >>
    /\ visited = { }
    /\ result = EmptyResult
    /\ temp_dirs = { }
    /\ staged = << >>
    /\ reports = << >>
    /\ processed_files = << >>

\* No call of evaluate_constant_expression is under way.
EvalIdle ==
    /\ expression = << >>
    /\ syntax = << >>
    /\ maybe_value = [returned |-> FALSE, has_value |-> FALSE, value |-> 0]

\* No call of evaluate_bracket_expressions is under way.
BracketIdle ==
    /\ bracket_text = << >>
    /\ bracket_source = << >>
    /\ bracket_returned = FALSE

\* No call of replace_parameters is under way.
ReplaceIdle ==
    /\ replace_text = << >>
    /\ replace_params = << >>
    /\ replace_args = << >>
    /\ replace_source = << >>
    /\ replace_i = 0
    /\ replace_pos = 0
    /\ replace_pc = "idle"

\* No definition is being specialized outside a scan.
RegisterIdle ==
    /\ register_def = << >>
    /\ register_returned = 0
    /\ register_signature = << >>
    /\ register_signatures = { }
    /\ register_calls = 0

CallIdle == ReplaceIdle /\ RegisterIdle

\* The scan state the variables hold.
Cur ==
    [ text |-> text, pos |-> pos, output |-> output, brace_depth |-> brace_depth,
      scope_stack |-> scope_stack, pending_scope |-> pending_scope,
      definitions |-> definitions, lookup |-> lookup,
      had_templates |-> had_templates, frames_pushed |-> frames_pushed,
      use_sites |-> use_sites ]

ScanIs(st) ==
    /\ text = st.text
    /\ pos = st.pos
    /\ output = st.output
    /\ brace_depth = st.brace_depth
    /\ scope_stack = st.scope_stack
    /\ pending_scope = st.pending_scope
    /\ definitions = st.definitions
    /\ lookup = st.lookup
    /\ had_templates = st.had_templates
    /\ frames_pushed = st.frames_pushed
    /\ use_sites = st.use_sites
    /\ awaited = IdlePending
    /\ crashed = FALSE

ScanBecomes(st) ==
    /\ text' = st.text
    /\ pos' = st.pos
    /\ output' = st.output
    /\ brace_depth' = st.brace_depth
    /\ scope_stack' = st.scope_stack
    /\ pending_scope' = st.pending_scope
    /\ definitions' = st.definitions
    /\ lookup' = st.lookup
    /\ had_templates' = st.had_templates
    /\ frames_pushed' = st.frames_pushed
    /\ use_sites' = st.use_sites
    /\ UNCHANGED << crashed, eval_vars, bracket_vars, call_vars, tree_vars >>

Scanning == pos < Len(text)

ScanDone == ~Scanning

\* The loop of process_file_content is running.
Running == Scanning /\ ~crashed

ScanInit == \E t \in InputFiles : ScanIs(ScanStart(t))

\* The awaited scope after a token that is not a scope keyword: the token
\* names the scope if the keyword was the token before it.
AwaitedAfterToken(scope, token) ==
    IF scope.m_expect_name
    THEN [scope EXCEPT !.m_name = token, !.m_expect_name = FALSE, !.m_expect_brace = TRUE]
    ELSE scope

StringLiteral ==
    /\ Running /\ AtString(Cur)
    /\ ScanBecomes(CopyString(Cur))
    /\ UNCHANGED awaited

LineComment ==
    /\ Running /\ ~AtString(Cur) /\ AtLineComment(Cur)
    /\ ScanBecomes(CopyLineComment(Cur))
    /\ UNCHANGED awaited

BlockComment ==
    /\ Running /\ ~AtString(Cur) /\ AtBlockComment(Cur)
    /\ ScanBecomes(CopyBlockComment(Cur))
    /\ UNCHANGED awaited

Definition ==
    /\ Running /\ DefinitionAt(Cur).ok
    /\ ScanBecomes(TakeDefinition(Cur))
    /\ awaited' = IdlePending

BraceOpen ==
    /\ Running /\ CharAt(Cur) = "{"
    /\ ScanBecomes(OpenBrace(Cur))
    /\ awaited' = IF awaited.m_expect_brace THEN IdlePending ELSE awaited

BraceClose ==
    /\ Running /\ CharAt(Cur) = "}"
    /\ ScanBecomes(CloseBrace(Cur))
    /\ awaited' = IdlePending

StatementEnd ==
    /\ Running /\ CharAt(Cur) = ";"
    /\ ScanBecomes(Semicolon(Cur))
    /\ awaited' = IdlePending

Whitespace ==
    /\ Running /\ isspace(CharAt(Cur))
    /\ ScanBecomes(CopyCharacter(Cur))
    /\ UNCHANGED awaited

KeywordToken ==
    /\ Running /\ AtScopeKeyword(Cur)
    /\ ScanBecomes(ScopeKeyword(Cur))
    /\ awaited' = ScopeKeyword(Cur).pending_scope

UseSiteResolved ==
    /\ Running /\ AtResolvedUse(Cur)
    /\ ScanBecomes(ResolvedUse(Cur))
    /\ awaited' = AwaitedAfterToken(awaited, TokenAt(Cur))

UseSiteUnresolved ==
    /\ Running /\ AtUnresolvedUse(Cur)
    /\ ScanBecomes(UnresolvedUse(Cur))
    /\ awaited' = AwaitedAfterToken(awaited, TokenAt(Cur))

\* Undefined behaviour: the read yields some definition and the scan goes
\* on, or the process ends at the read.
UseSiteDangling ==
    /\ Running /\ AtDanglingUse(Cur)
    /\ \/ /\ \E st \in DanglingOutcomes(Cur) : ScanBecomes(st)
          /\ awaited' = AwaitedAfterToken(awaited, TokenAt(Cur))
       \/ /\ crashed' = TRUE
          /\ UNCHANGED << text, pos, output, brace_depth, scope_stack, pending_scope,
                          definitions, lookup, had_templates, frames_pushed,
                          use_sites, awaited >>
          /\ UNCHANGED << eval_vars, bracket_vars, call_vars, tree_vars >>

OtherToken ==
    /\ Running /\ AtPlainToken(Cur)
    /\ ScanBecomes(PlainToken(Cur))
    /\ awaited' = AwaitedAfterToken(awaited, TokenAt(Cur))

OtherCharacter ==
    /\ Running /\ AtOther(Cur)
    /\ ScanBecomes(CopyCharacter(Cur))
    /\ UNCHANGED awaited

ScanNext ==
    \/ StringLiteral
    \/ LineComment
    \/ BlockComment
    \/ Definition
    \/ BraceOpen
    \/ BraceClose
    \/ StatementEnd
    \/ Whitespace
    \/ KeywordToken
    \/ UseSiteResolved
    \/ UseSiteUnresolved
    \/ UseSiteDangling
    \/ OtherToken
    \/ OtherCharacter

Init == ScanInit /\ EvalIdle /\ BracketIdle /\ TreeIdle /\ CallIdle

Next == ScanNext

Spec == Init /\ [][Next]_vars

\* The scan of the input files and of the files that hold one definition
\* with a generated body.
InitPlaceholder ==
    /\ \E t \in InputFiles \cup PlaceholderFiles : ScanIs(ScanStart(t))
    /\ EvalIdle /\ BracketIdle /\ TreeIdle /\ CallIdle

SpecPlaceholder == InitPlaceholder /\ [][Next]_vars

\* The scan of the input files and of the files about scopes.  The loop
\* of process_file_content runs on while pos < text.size().
InitScope ==
    /\ \E t \in InputFiles \cup ScopeFiles : ScanIs(ScanStart(t))
    /\ EvalIdle /\ BracketIdle /\ TreeIdle /\ CallIdle

SpecScope == InitScope /\ [][Next]_vars /\ WF_vars(Next)

\* ------------------------------------------------------------------------
\* Properties of the scan
\* ------------------------------------------------------------------------

\* The number of occurrences of word in t at or after position from.
RECURSIVE Occurrences(_, _, _)
Occurrences(t, word, from) ==
    IF StrFind(t, word, from) = NPOS THEN 0
    ELSE 1 + Occurrences(t, word, StrFind(t, word, from) + 1)

\* The positions of the '{' of the brace blocks of t that are open at
\* position upto, outermost first.
RECURSIVE OpenBlocks(_, _, _, _)
OpenBlocks(t, i, upto, stack) ==
    IF i >= upto THEN stack
    ELSE IF At(t, i) = "{" THEN OpenBlocks(t, i + 1, upto, Append(stack, i))
    ELSE IF At(t, i) = "}" /\ stack # << >>
         THEN OpenBlocks(t, i + 1, upto, SubSeq(stack, 1, Len(stack) - 1))
    ELSE OpenBlocks(t, i + 1, upto, stack)

IsPrefix(a, b) == Len(a) <= Len(b) /\ SubSeq(b, 1, Len(a)) = a

BoxPlaceholder ==
    KwStruct \o << " ","B","o","x"," ","{"," ","v","o","i","d","*"," ",
                   "v","a","l","u","e",";"," ","}",";" >>

BoxInt == << "B","o","x","_","i","n","t" >>

BoxIntDeclaration ==
    KwStruct \o << " " >> \o BoxInt
        \o << " ","{"," ","i","n","t"," ","v","a","l","u","e",";"," ","}",";" >>

BoxIntUses == BoxInt \o << " ","b",";"," " >> \o BoxInt \o << " ","c",";" >>

\* What scenario S1 asks of the scan of a Box file: the definition is
\* registered, had_templates is set, the output holds the placeholder with
\* `void* value`, one declaration of Box_int before the first use site, and
\* both use sites rewritten.
BoxOutcome ==
    /\ Len(definitions) = 1
    /\ definitions[1].m_name = << "B","o","x" >>
    /\ << "B","o","x" >> \in DOMAIN lookup.m_by_name
    /\ had_templates
    /\ Contains(output, BoxPlaceholder)
    /\ Occurrences(output, BoxIntDeclaration, 0) = 1
    /\ StrFind(output, BoxIntDeclaration, 0) < StrFind(output, BoxIntUses, 0)
    /\ Occurrences(output, BoxIntUses, 0) = 1
    /\ ~Contains(output, << "B","o","x","<" >>)

C2_DeclarationVisible ==
    \A j \in 1..Len(use_sites) :
        \E i \in 1..j :
            /\ use_sites[i].declared
            /\ use_sites[i].name = use_sites[j].name
            /\ use_sites[i].decl_at < use_sites[j].ref_at
            /\ IsPrefix(OpenBlocks(output, 0, use_sites[i].decl_at, << >>),
                        OpenBlocks(output, 0, use_sites[j].ref_at, << >>))

\* An earlier use site of the same frame resolved to the same name.
UsedBefore(sites, frame, name) ==
    \E i \in 1..Len(sites) : sites[i].frame = frame /\ sites[i].name = name

\* The sanitized name the resolved branch is about to reference.
NameAtUse == ResolvedUse(Cur).use_sites[Len(use_sites) + 1].name

\* C3: in the lifetime of a scope frame the declaration of a sanitized name
\* is written at the first use site of the frame that resolves to it; every
\* later use site of the frame appends the sanitized name and nothing else.
C3_DeclaredOncePerFrame ==
    [][ (Scanning /\ AtResolvedUse(Cur)) =>
            IF UsedBefore(use_sites, Top(Cur).id, NameAtUse)
            THEN output' = output \o NameAtUse
            ELSE /\ Len(output') > Len(output) + Len(NameAtUse)
                 /\ Contains(SubstrFrom(output', Len(output)),
                             KwStruct \o << " " >> \o NameAtUse) ]_vars

\* Two use sites of one frame resolved to the same name: the first wrote
\* the declaration, the second did not.
C3_SecondUseInFrame ==
    \E i, j \in 1..Len(use_sites) :
        /\ i < j
        /\ use_sites[i].frame = use_sites[j].frame
        /\ use_sites[i].name = use_sites[j].name
        /\ use_sites[i].declared
        /\ ~use_sites[j].declared

\* C4: the output of a finished scan holds no text that
\* parse_template_definition accepts as a definition.
C4_NoParametricDeclaration ==
    ScanDone =>
        \A p \in 0..(Len(output) - 1) :
            is_identifier_start(At(output, p)) => ~parse_template_definition(output, p).ok

\* C5: scanning the output of a finished scan returns that output unchanged
\* and reports no templates.
C5_Idempotent ==
    ScanDone =>
        /\ process_file_content(output).output = output
        /\ ~process_file_content(output).had_templates

\* The position after the '>' that matches the '<' at lt - 1, counting
\* nested angle brackets from depth 1 at position lt.
RECURSIVE MatchingGt(_, _, _)
MatchingGt(t, i, depth) ==
    IF i >= Len(t) THEN i
    ELSE IF At(t, i) = "<" THEN MatchingGt(t, i + 1, depth + 1)
    ELSE IF At(t, i) = ">"
         THEN IF depth = 1 THEN i + 1 ELSE MatchingGt(t, i + 1, depth - 1)
    ELSE MatchingGt(t, i + 1, depth)

\* C7: at a token with a non-empty argument list that resolves to no
\* definition, the scan appends the source text from the token through the
\* matching '>', goes on after the '>', and leaves the definitions, the
\* lookup, the frames with their emitted sets and had_templates as they were.
C7_UnresolvedVerbatim ==
    [][ (Scanning /\ AtUnresolvedUse(Cur)) =>
            /\ pos' = MatchingGt(text, LookaheadLt(Cur) + 1, 1)
            /\ output' = output \o Substr(text, pos, pos' - pos)
            /\ definitions' = definitions
            /\ lookup' = lookup
            /\ scope_stack' = scope_stack
            /\ had_templates' = had_templates
            /\ use_sites' = use_sites ]_vars

\* A finished scan of a definition followed by `U<i> y;`, which resolves to
\* nothing: the output ends with that text and no specialization exists.
C7_UnresolvedCopied ==
    /\ ScanDone
    /\ text = DefB \o ItemUnresolved
    /\ output = SubSeq(output, 1, Len(output) - Len(ItemUnresolved)) \o ItemUnresolved
    /\ definitions[1].m_specializations = << >>

\* The scope token a specialization was registered under: the part of its
\* signature before the '|'.
ScopeTokenOf(def, k) ==
    LET signature == CHOOSE sig \in DOMAIN def.m_specialization_index :
                         def.m_specialization_index[sig] = k - 1
    IN Substr(signature, 0, StrFind(signature, << "|" >>, 0))

\* C8: for a given definition and a given scope hint, any two argument
\* tuples that differ after trimming are registered under different
\* sanitized specialization names.
C8_DistinctNames ==
    \A d \in 1..Len(definitions) :
        \A i, j \in 1..Len(definitions[d].m_specializations) :
            (/\ definitions[d].m_specializations[i].m_arguments
                    # definitions[d].m_specializations[j].m_arguments
             /\ ScopeTokenOf(definitions[d], i) = ScopeTokenOf(definitions[d], j))
                => definitions[d].m_specializations[i].m_sanitized_name
                       # definitions[d].m_specializations[j].m_sanitized_name

\* The scores of the candidates of one short name, in registration order.
CandidateScores(defs, candidates, prefix, current_scope) ==
    [k \in 1..Len(candidates) |->
        score_candidate(defs[candidates[k]], prefix, current_scope)]

\* The first position that holds the maximum of a non-empty list of scores.
FirstMaximum(scores) ==
    CHOOSE k \in 1..Len(scores) :
        /\ \A j \in 1..Len(scores) : scores[j] <= scores[k]
        /\ \A j \in 1..(k - 1) : scores[j] < scores[k]

\* The token at pos is a use site that resolve settles by scoring: it has
\* arguments, it is not a qualified token equal to a registered full name,
\* and some definition is registered under its base name.
AtScoredUse(st) ==
    /\ AtUseSite(st)
    /\ ArgumentsAt(st).args # << >>
    /\ ~(/\ StrRFind(TokenAt(st), << "." >>) # NPOS
         /\ TokenAt(st) \in DOMAIN st.lookup.m_by_full)
    /\ TokenBase(TokenAt(st)) \in DOMAIN st.lookup.m_by_name

\* The candidate the scoring table selects for the token at pos.
TableChoice(st) ==
    LET candidates == st.lookup.m_by_name[TokenBase(TokenAt(st))]
    IN candidates[FirstMaximum(CandidateScores(st.definitions, candidates,
                                               TokenPrefix(TokenAt(st)), Top(st).m_path))]

\* C11: a use-site token that is not an exact full-name match and whose base
\* name has registered definitions resolves to the first registered
\* definition among those with the maximum score of the scoring table; in
\* particular it resolves to a definition.
C11_MaximumScore ==
    (Scanning /\ AtScoredUse(Cur)) => ResolvedAt(Cur) = TableChoice(Cur)

\* The use site at pos has arguments and a qualified token that is the full
\* name of a registered definition.
AtExactUse(st) ==
    /\ AtUseSite(st)
    /\ ArgumentsAt(st).args # << >>
    /\ StrRFind(TokenAt(st), << "." >>) # NPOS
    /\ TokenAt(st) \in DOMAIN st.lookup.m_by_full

\* A qualified token equal to a full name resolves to a stored definition
\* with that full name.
QualifiedExact ==
    (Scanning /\ AtExactUse(Cur)) =>
        /\ StoredAt(definitions, ResolvedAt(Cur))
        /\ full_name(definitions[ResolvedAt(Cur)]) = TokenAt(Cur)

\* The specialization names of the two use sites of FileHolder.
HolderInner == Holder \o << "_", "n", "s", "_", "S", "_", "i", "n", "t" >>
HolderOuter == Holder \o << "_", "i", "n", "t" >>

\* After the scan of FileHolder, `ns.S.Holder<int>` has specialized the
\* definition of scope ns.S and `Holder<int>` the one of file scope, under
\* different names.
HolderResolved ==
    (ScanDone /\ text = FileHolder) =>
        /\ Len(use_sites) = 2
        /\ use_sites[1].name = HolderInner
        /\ use_sites[2].name = HolderOuter
        /\ definitions[1].m_scope_path = << >>
        /\ definitions[2].m_scope_path = << "n", "s", ".", "S" >>
        /\ Len(definitions[1].m_specializations) = 1
        /\ definitions[1].m_specializations[1].m_sanitized_name = HolderOuter
        /\ Len(definitions[2].m_specializations) = 1
        /\ definitions[2].m_specializations[1].m_sanitized_name = HolderInner

\* C12: with Holder defined at file scope and inside ns.S, the use
\* `ns.S.Holder<int>` resolves to the inner definition and `Holder<int>` at
\* file scope to the outer one, under different sanitized names; and every
\* qualified token equal to a definition's full name resolves to a
\* definition with that full name.
C12_QualifiedResolution == HolderResolved /\ QualifiedExact

\* The references the lookup holds, by full name and by short name.
LookupReferences(lk) ==
    { lk.m_by_full[name] : name \in DOMAIN lk.m_by_full }
        \cup UNION { { lk.m_by_name[name][k] : k \in 1..Len(lk.m_by_name[name]) } :
                      name \in DOMAIN lk.m_by_name }

\* C20: at every point of the scan of one file, every reference the lookup
\* holds designates a definition stored at that place of the definitions
\* container.
C20_ReferencesStored ==
    \A ptr \in LookupReferences(lookup) : StoredAt(definitions, ptr)

\* ------------------------------------------------------------------------
\* Calls of evaluate_constant_expression
\*
\* The expressions are written from syntax trees of the grammar of
\* ConstantExpressionParser.  A tree is [kind, op, lit, args]: a literal
\* (lit indexes Literals), a unary operator applied to one tree or a
\* binary operator applied to two.
\* ------------------------------------------------------------------------

\* The literals, as written and as numbers.
Literals ==
    << [text |-> << "0" >>, value |-> 0],
       [text |-> << "1" >>, value |-> 1],
       [text |-> << "2" >>, value |-> 2],
       [text |-> << "3" >>, value |-> 3],
       [text |-> << "7" >>, value |-> 7],
       [text |-> << "8" >>, value |-> 8],
       [text |-> << "1", "0", "0" >>, value |-> 100],
       [text |-> << "1", "2", "7" >>, value |-> 127],
       [text |-> << "1", "2", "8" >>, value |-> 128],
       [text |-> << "0", "x", "F", "F" >>, value |-> 255],
       [text |-> << "0", "X", "1", "0" >>, value |-> 16],
       [text |-> << "2", "U", "L" >>, value |-> 2] >>

\* The literals used below another operator's operand.
SmallLiterals == 2..4

UnaryOps == { "+", "-", "~" }

BinaryOps == { "|", "^", "&", "<<", ">>", "+", "-", "*", "/", "%" }

\* The characters of a binary operator.
OpToken(op) ==
    IF op = "<<" THEN << "<", "<" >>
    ELSE IF op = ">>" THEN << ">", ">" >>
    ELSE << op >>

\* The precedence of a binary operator: the index in Levels of the
\* function that parses it.
Precedence(op) ==
    CHOOSE i \in 1..6 : OpToken(op) \in Range(LevelTokens(Levels[i]))

Lit(k) == [kind |-> "lit", op |-> "", lit |-> k, args |-> << >>]
Un(op, a) == [kind |-> "un", op |-> op, lit |-> 0, args |-> << a >>]
Bin(op, a, b) == [kind |-> "bin", op |-> op, lit |-> 0, args |-> << a, b >>]

LiteralTrees == { Lit(k) : k \in 1..Len(Literals) }

SmallTrees == { Lit(k) : k \in SmallLiterals }

UnaryTrees == { Un(op, a) : op \in UnaryOps, a \in LiteralTrees }

FlatTrees == { Bin(op, a, b) : op \in BinaryOps, a \in LiteralTrees, b \in LiteralTrees }

SignedTrees ==
    { Bin(op, Un(u, a), b) : op \in BinaryOps, u \in UnaryOps, a \in SmallTrees, b \in SmallTrees }
        \cup { Bin(op, a, Un(u, b)) : op \in BinaryOps, u \in UnaryOps, a \in SmallTrees, b \in SmallTrees }

NestedTrees ==
    { Bin(op, Bin(inner, a, b), c) :
          op \in BinaryOps, inner \in BinaryOps, a \in SmallTrees, b \in SmallTrees, c \in SmallTrees }
        \cup { Bin(op, a, Bin(inner, b, c)) :
          op \in BinaryOps, inner \in BinaryOps, a \in SmallTrees, b \in SmallTrees, c \in SmallTrees }

SyntaxTrees == LiteralTrees \cup UnaryTrees \cup FlatTrees \cup SignedTrees \cup NestedTrees

\* The text of a tree.  An operand is parenthesised where the grammar
\* would otherwise read it differently: a left operand of lower
\* precedence, a right operand of lower or equal precedence (the operators
\* associate to the left), and a unary right operand.
RECURSIVE Render(_)

Parenthesised(tree) == << "(" >> \o Render(tree) \o << ")" >>

RenderLeft(op, tree) ==
    IF tree.kind = "bin" /\ Precedence(tree.op) < Precedence(op)
    THEN Parenthesised(tree) ELSE Render(tree)

RenderRight(op, tree) ==
    IF \/ tree.kind = "un"
       \/ tree.kind = "bin" /\ Precedence(tree.op) <= Precedence(op)
    THEN Parenthesised(tree) ELSE Render(tree)

Render(tree) ==
    IF tree.kind = "lit" THEN Literals[tree.lit].text
    ELSE IF tree.kind = "un" THEN << tree.op >> \o Render(tree.args[1])
    ELSE RenderLeft(tree.op, tree.args[1]) \o OpToken(tree.op)
             \o RenderRight(tree.op, tree.args[2])

\* The value of a binary operator on mathematical integers, and whether it
\* has one (a zero divisor and a negative shift count have none).  A shift
\* count of 2 * IntBits or more is answered by the limit: every tree here
\* has operands below 2^(2 * IntBits) in magnitude.
MathDefinedOp(op, a, b) ==
    IF op \in { "/", "%" } THEN b # 0
    ELSE IF op \in { "<<", ">>" } THEN b >= 0
    ELSE TRUE

MathOp(op, a, b) ==
    IF op = "+" THEN a + b
    ELSE IF op = "-" THEN a - b
    ELSE IF op = "*" THEN a * b
    ELSE IF op = "/" THEN TruncDiv(a, b)
    ELSE IF op = "%" THEN TruncMod(a, b)
    ELSE IF op = "<<" THEN (IF b >= 2 * IntBits THEN 0 ELSE a * Pow2(b))
    ELSE IF op = ">>" THEN (IF b >= 2 * IntBits THEN (IF a < 0 THEN -1 ELSE 0) ELSE a \div Pow2(b))
    ELSE Bitwise(op, Wrap(a), Wrap(b))

\* The mathematical value of a tree: [defined, value].
RECURSIVE MathValue(_)

MathBinary(op, a, b) ==
    IF a.defined /\ b.defined /\ MathDefinedOp(op, a.value, b.value)
    THEN [defined |-> TRUE, value |-> MathOp(op, a.value, b.value)]
    ELSE [defined |-> FALSE, value |-> 0]

MathUnary(op, a) ==
    [defined |-> a.defined,
     value |-> IF op = "-" THEN -a.value ELSE IF op = "~" THEN -a.value - 1 ELSE a.value]

MathValue(tree) ==
    IF tree.kind = "lit" THEN [defined |-> TRUE, value |-> Literals[tree.lit].value]
    ELSE IF tree.kind = "un" THEN MathUnary(tree.op, MathValue(tree.args[1]))
    ELSE MathBinary(tree.op, MathValue(tree.args[1]), MathValue(tree.args[2]))

\* A call is made with the text of some tree.
EvalInit ==
    /\ syntax \in SyntaxTrees
    /\ expression = Render(syntax)
    /\ maybe_value = [returned |-> FALSE, has_value |-> FALSE, value |-> 0]

\* The call returns; no operation it executed was undefined behaviour.
Evaluate ==
    /\ ~maybe_value.returned
    /\ ~evaluate_constant_expression(expression).ub
    /\ maybe_value' = [returned |-> TRUE,
                       has_value |-> evaluate_constant_expression(expression).has_value,
                       value |-> evaluate_constant_expression(expression).value]
    /\ UNCHANGED << expression, syntax, scan_vars, bracket_vars, call_vars, tree_vars >>

\* The call executed a signed overflow or a shift by a count outside
\* [0, width): the behaviour is undefined, and the call returns any value.
EvaluateUndefined ==
    /\ ~maybe_value.returned
    /\ evaluate_constant_expression(expression).ub
    /\ \E v \in IntMin..IntMax :
           maybe_value' = [returned |-> TRUE,
                           has_value |-> evaluate_constant_expression(expression).has_value,
                           value |-> IF evaluate_constant_expression(expression).has_value THEN v ELSE 0]
    /\ UNCHANGED << expression, syntax, scan_vars, bracket_vars, call_vars, tree_vars >>

\* No file is being scanned.
ScanIdle == ScanIs(ScanStart(<< >>))

InitEval == EvalInit /\ ScanIdle /\ BracketIdle /\ TreeIdle /\ CallIdle

NextEval == Evaluate \/ EvaluateUndefined

SpecEval == InitEval /\ [][NextEval]_vars

\* C9: whenever the evaluator is given an expression that is well formed
\* per the grammar and has a mathematical value, it returns that value
\* reduced modulo 2^IntBits and read as a signed integer.
C9_MathematicalValue ==
    (maybe_value.returned /\ MathValue(syntax).defined)
        => /\ maybe_value.has_value
           /\ maybe_value.value = Wrap(MathValue(syntax).value)

\* ------------------------------------------------------------------------
\* Calls of evaluate_bracket_expressions
\* ------------------------------------------------------------------------

\* The largest number of segments a text is put together from.
MaxSegments == 4

\* Lone brackets, a letter, and bracket pairs around: a sum, the rejected
\* operators || and &&, a division and a remainder by zero, a malformed
\* expression and nothing.
Segments ==
    { << "[" >>, << "]" >>, << "a" >>,
      << "[", "1", "+", "1", "]" >>,
      << "[", "1", "|", "|", "2", "]" >>,
      << "[", "2", "&", "&", "1", "]" >>,
      << "[", "4", "/", "0", "]" >>,
      << "[", "4", "%", "0", "]" >>,
      << "[", "1", "a", "]" >>,
      << "[", "]" >> }

BracketTexts == { Flatten(segs) : segs \in UNION { [1..n -> Segments] : n \in 0..MaxSegments } }

\* A call is made with some text.
BracketInit ==
    /\ bracket_source \in BracketTexts
    /\ bracket_text = bracket_source
    /\ bracket_returned = FALSE

\* The call runs to its return.
EvaluateBrackets ==
    /\ ~bracket_returned
    /\ bracket_text' = evaluate_bracket_expressions(bracket_text)
    /\ bracket_returned' = TRUE
    /\ UNCHANGED << bracket_source, scan_vars, eval_vars, tree_vars, call_vars >>

InitBracket == BracketInit /\ ScanIdle /\ EvalIdle /\ TreeIdle /\ CallIdle

NextBracket == EvaluateBrackets

SpecBracket == InitBracket /\ [][NextBracket]_vars

\* The bracket pairs of a text, found with a stack of the open brackets:
\* the set of << open, close >> positions.
RECURSIVE MatchedPairs(_, _, _, _)
MatchedPairs(t, i, stack, pairs) ==
    IF i >= Len(t) THEN pairs
    ELSE IF At(t, i) = "[" THEN MatchedPairs(t, i + 1, << i >> \o stack, pairs)
    ELSE IF At(t, i) = "]" /\ stack # << >>
         THEN MatchedPairs(t, i + 1, Tail(stack), pairs \cup { << stack[1], i >> })
    ELSE MatchedPairs(t, i + 1, stack, pairs)

Pairs(t) == MatchedPairs(t, 0, << >>, { })

\* The '[' of the pair has another '[' right before or right after it.
AdjacentOpen(t, pair) ==
    \/ pair[1] > 0 /\ At(t, pair[1] - 1) = "["
    \/ pair[1] + 1 < Len(t) /\ At(t, pair[1] + 1) = "["

Inner(t, pair) == Substr(t, pair[1] + 1, pair[2] - pair[1] - 1)

\* The whole inner text of the pair evaluates.
Reducible(t, pair) ==
    Inner(t, pair) # << >> /\ evaluate_constant_expression(Inner(t, pair)).has_value

Encloses(outer, pair) == outer[1] < pair[1] /\ pair[2] < outer[2]

\* The pairs to reduce among `considered`: the reducible ones that lie in
\* no other considered pair.
ToReduce(t, considered) ==
    { pair \in considered :
          /\ Reducible(t, pair)
          /\ ~\E outer \in considered : Encloses(outer, pair) }

\* t with the inner text of each of the pairs (none inside another)
\* replaced by its value, rightmost pair first.
RECURSIVE ReducePairs(_, _)
ReducePairs(t, pairs) ==
    IF pairs = { } THEN t
    ELSE LET last == CHOOSE pair \in pairs : \A other \in pairs : other[1] <= pair[1]
         IN ReducePairs(
                StrReplace(t, last[1] + 1, last[2] - last[1] - 1,
                           to_string(evaluate_constant_expression(Inner(t, last)).value)),
                pairs \ { last })

\* Every reducible pair outside any other pair is reduced, all else is kept.
ReducedEverywhere(t) == ReducePairs(t, ToReduce(t, Pairs(t)))

\* The same, of the pairs whose '[' has no '[' next to it.
ReducedApart(t) == ReducePairs(t, ToReduce(t, { pair \in Pairs(t) : ~AdjacentOpen(t, pair) }))

\* C10 (as stated): a pair is rewritten only when its whole inner text
\* evaluates, a failing pair is left exactly as it was, and every other
\* reducible pair of the text is still reduced.
C10_EveryReduciblePair ==
    bracket_returned => bracket_text = ReducedEverywhere(bracket_source)

\* C10 (amended): the same of the pairs whose '[' has no '[' directly
\* before or after it; a pair with such a neighbour is passed over, and so
\* is everything inside a failing pair.
C10_PairsApart ==
    bracket_returned => bracket_text = ReducedApart(bracket_source)

\* A returned call on a text with a failing pair, a reduced pair, and a
\* reducible pair passed over because its '[' follows another '['.
C10_MixedPairs ==
    /\ bracket_returned
    /\ bracket_text # bracket_source
    /\ \E pair \in Pairs(bracket_source) :
           ~AdjacentOpen(bracket_source, pair) /\ Inner(bracket_source, pair) = << "4", "/", "0" >>
    /\ \E pair \in Pairs(bracket_source) :
           AdjacentOpen(bracket_source, pair) /\ Reducible(bracket_source, pair)

\* ------------------------------------------------------------------------
\* Calls of process_tree
\* ------------------------------------------------------------------------

\* The files /p/a (the root file), /p/b and /q/a: the last lies outside the
\* directory of the root file and has the file name of the root file.
PathA == << << "p" >>, << "a" >> >>
PathB == << << "p" >>, << "b" >> >>
PathE == << << "q" >>, << "a" >> >>

TreePaths == { PathA, PathB, PathE }

\* std::filesystem::temp_directory_path()
TempDirectoryPath == << << "t" >> >>

TempPrefix == << "r","e","g","e","n","n","y","_","t","m","p","l","_" >>

\* The values random_suffix() may return.
Suffixes == { << "1" >>, << "2" >> }

\* The content of a path that cannot be opened.
Missing == << "missing" >>

ImportLine(written) == KwImport \o << " ", "\"" >> \o written \o << "\"", "\n" >>

ImportA == ImportLine(<< "a" >>)
ImportB == ImportLine(<< "b" >>)
ImportE == ImportLine(<< ".", ".", "/", "q", "/", "a" >>)

ImportLists == { << >>, ImportA, ImportB, ImportE, ImportB \o ImportE, ImportB \o ImportB }

\* int x;
BodyPlain == << "i", "n", "t", " ", "x", ";" >>

\* struct B<typename T>{T v;};B<i> x;
BodyTemplate == DefB \o ItemUse

\* template<typename T> struct B{T v;};
BodyDocumented ==
    KwTemplate \o << "<" >> \o TypenameT \o << ">", " " >> \o KwStruct
        \o << " ", "B", "{", "T", " ", "v", ";", "}", ";" >>

TreeContents ==
    { imports \o content : imports \in ImportLists,
                           content \in { BodyPlain, BodyTemplate, BodyDocumented } }

\* What the file outside the root's directory holds.
OutsideContents == { Missing, BodyPlain, BodyTemplate }

FileSystems ==
    { fs \in [ TreePaths -> TreeContents \cup { Missing } ] : fs[PathE] \in OutsideContents }

\* temp_directory_path() / ("regenny_tmpl_" + suffix)
StagingDirectory(suffix) == TempDirectoryPath \o << TempPrefix \o suffix >>

\* The staging directory of a result of an earlier call that is still alive,
\* and the file staged in it.
OtherDirectory == StagingDirectory(<< "1" >>)

OtherStaged == (OtherDirectory \o << << "b" >> >>) :> BodyPlain

\* process_file_content(file_path, text): the processed content, whether
\* the file had templates, and the imports of the processed content.
FileProcessed(file_path, scanned) ==
    [ output |-> scanned.output,
      had_templates |-> scanned.had_templates,
      imports |-> extract_imports(scanned.output, file_path) ]

FileProcessResult(file_path, content) == FileProcessed(file_path, process_file_content(content))

\* What process_file_content returns for each readable file of a file system.
FileProcessResults(fs) ==
    [ file_path \in { path \in DOMAIN fs : fs[path] # Missing } |->
        FileProcessResult(file_path, fs[file_path]) ]

\* std::ifstream file{path}; file.is_open()
Readable(path) == path \in DOMAIN files /\ files[path] # Missing

\* map.emplace(key, value): an existing key keeps its value.
Emplace(map, key, value) == IF key \in DOMAIN map THEN map ELSE (key :> value) @@ map

\* path is temp_directory or lies below it.
Below(temp_directory, path) ==
    Len(path) >= Len(temp_directory) /\ SubSeq(path, 1, Len(temp_directory)) = temp_directory

\* The staged files that remove_temp_directory(temp_directory) leaves.
remove_temp_directory(temp_directory) ==
    IF temp_directory = << >> THEN staged
    ELSE [ path \in { q \in DOMAIN staged : ~Below(temp_directory, q) } |-> staged[path] ]

\* A call is made: the file system holds some content, or none, at each
\* path, the argument is empty or names the root file, and the result of an
\* earlier call may be alive.
TreeInit ==
    /\ files \in FileSystems
    /\ processed_files = FileProcessResults(files)
    /\ root_path \in { << >>, PathA }
    /\ tree_pc = "called"
    /\ queue = << >>
    /\ visited = { }
    /\ result = EmptyResult
    /\ \E other_alive \in BOOLEAN :
           /\ temp_dirs = IF other_alive THEN { OtherDirectory } ELSE { }
           /\ staged = IF other_alive THEN OtherStaged ELSE << >>
    /\ reports = << >>

\* `if (root_path.empty()) return std::nullopt;`
ReturnEmptyRoot ==
    /\ tree_pc = "called" /\ root_path = << >>
    /\ tree_pc' = "nothing"
    /\ UNCHANGED << files, processed_files, root_path, queue, visited, result, temp_dirs, staged, reports >>
    /\ UNCHANGED << scan_vars, eval_vars, bracket_vars, call_vars >>

\* create_directories(temp_dir, ec) fails: `if (ec) return std::nullopt;`
StartFails ==
    /\ tree_pc = "called" /\ root_path # << >>
    /\ tree_pc' = "nothing"
    /\ UNCHANGED << files, processed_files, root_path, queue, visited, result, temp_dirs, staged, reports >>
    /\ UNCHANGED << scan_vars, eval_vars, bracket_vars, call_vars >>

\* The temporary directory is created and the queue holds the root.
Start ==
    /\ tree_pc = "called" /\ root_path # << >>
    /\ \E suffix \in Suffixes :
           /\ result' = [EmptyResult EXCEPT
                           !.m_original_root = canonicalize_path(root_path),
                           !.m_temp_directory = StagingDirectory(suffix)]
           /\ temp_dirs' = temp_dirs \cup { StagingDirectory(suffix) }
    /\ queue' = << canonicalize_path(root_path) >>
    /\ tree_pc' = "loop"
    /\ UNCHANGED << files, processed_files, root_path, visited, staged, reports >>
    /\ UNCHANGED << scan_vars, eval_vars, bracket_vars, call_vars >>

\* `auto current = queue.back(); queue.pop_back();` and its canonical form.
CanonicalCurrent == canonicalize_path(queue[Len(queue)])

Popped == SubSeq(queue, 1, Len(queue) - 1)

\* `auto base_dir = canonical_root.parent_path();`
BaseDir == parent_path(result.m_original_root)

Looping == tree_pc = "loop" /\ queue # << >>

\* result.m_had_templates set regardless of what the file reported.
TreeHadTemplatesSet(m_had_templates, processed) == TRUE

\* `if (processed.m_had_templates) result.m_had_templates = true;`
TreeHadTemplates(m_had_templates, processed) == m_had_templates \/ processed.had_templates

\* The imports pushed, each through canonicalize_path.
PushImports(pending, imports) ==
    pending \o [ i \in 1..Len(imports) |-> canonicalize_path(imports[i]) ]

\* The set without the insertion.
VisitedEmplaceDropped(seen, canonical_current) == seen

\* visited.emplace(canonical_current)
VisitedEmplace(seen, canonical_current) == seen \cup { canonical_current }

\* The file was read; the iteration up to `relative` being computed.
\* `written` tells whether the iteration goes on to write the output.
FileRead(canonical_current, processed, written) ==
    /\ visited' = VisitedEmplace(visited, canonical_current)
    /\ reports' = Append(reports, [path |-> canonical_current,
                                   had_templates |-> processed.had_templates,
                                   written |-> written])
    /\ UNCHANGED << files, processed_files, root_path, tree_pc, temp_dirs >>
    /\ UNCHANGED << scan_vars, eval_vars, bracket_vars, call_vars >>

\* The rest of the iteration when the processed file is written.
FileStaged(canonical_current, processed, processed_path) ==
    /\ FileRead(canonical_current, processed, TRUE)
    /\ staged' = (processed_path :> processed.output) @@ staged
    /\ result' = [result EXCEPT
                    !.m_had_templates = TreeHadTemplates(@, processed),
                    !.m_original_to_processed = Emplace(@, canonical_current, processed_path),
                    !.m_processed_to_original = Emplace(@, processed_path, canonical_current)]
    /\ queue' = PushImports(Popped, processed.imports)

\* The rest of the iteration when create_directories or the std::ofstream
\* fails: `continue` before the maps and the imports.
FileNotStaged(canonical_current, processed) ==
    /\ FileRead(canonical_current, processed, FALSE)
    /\ result' = [result EXCEPT !.m_had_templates = TreeHadTemplates(@, processed)]
    /\ queue' = Popped
    /\ UNCHANGED staged

\* `if (!visited.emplace(canonical_current).second) continue;`
VisitAgain ==
    /\ Looping /\ CanonicalCurrent \in visited
    /\ queue' = Popped
    /\ UNCHANGED << files, processed_files, root_path, tree_pc, visited, result, temp_dirs, staged, reports >>
    /\ UNCHANGED << scan_vars, eval_vars, bracket_vars, call_vars >>

\* `if (!file.is_open()) continue;`
VisitUnreadable ==
    /\ Looping /\ CanonicalCurrent \notin visited /\ ~Readable(CanonicalCurrent)
    /\ queue' = Popped
    /\ visited' = VisitedEmplace(visited, CanonicalCurrent)
    /\ UNCHANGED << files, processed_files, root_path, tree_pc, result, temp_dirs, staged, reports >>
    /\ UNCHANGED << scan_vars, eval_vars, bracket_vars, call_vars >>

\* std::filesystem::relative succeeds or reports an error.
VisitFile ==
    /\ Looping /\ CanonicalCurrent \notin visited /\ Readable(CanonicalCurrent)
    /\ \E failed \in BOOLEAN :
           FileStaged(CanonicalCurrent, processed_files[CanonicalCurrent],
                      ProcessedPath(result.m_temp_directory,
                                    RelativeOrFilename(CanonicalCurrent, BaseDir, failed)))

VisitNotStaged ==
    /\ Looping /\ CanonicalCurrent \notin visited /\ Readable(CanonicalCurrent)
    /\ FileNotStaged(CanonicalCurrent, processed_files[CanonicalCurrent])

\* `if (!result.m_had_templates) { remove_temp_directory(temp_dir); return std::nullopt; }`
ReturnNothing ==
    /\ tree_pc = "loop" /\ queue = << >> /\ ~result.m_had_templates
    /\ staged' = remove_temp_directory(result.m_temp_directory)
    /\ temp_dirs' = temp_dirs \ { result.m_temp_directory }
    /\ tree_pc' = "nothing"
    /\ UNCHANGED << files, processed_files, root_path, queue, visited, result, reports >>
    /\ UNCHANGED << scan_vars, eval_vars, bracket_vars, call_vars >>

\* m_processed_root is set and the result returned.
ReturnResult ==
    /\ tree_pc = "loop" /\ queue = << >> /\ result.m_had_templates
    /\ result' = [result EXCEPT !.m_processed_root =
                     IF result.m_original_root \in DOMAIN result.m_original_to_processed
                     THEN result.m_original_to_processed[result.m_original_root]
                     ELSE result.m_original_root]
    /\ tree_pc' = "result"
    /\ UNCHANGED << files, processed_files, root_path, queue, visited, temp_dirs, staged, reports >>
    /\ UNCHANGED << scan_vars, eval_vars, bracket_vars, call_vars >>

\* TemplatePreprocessor::cleanup(result), called once or again.
Cleanup ==
    /\ tree_pc \in { "result", "cleaned" }
    /\ staged' = remove_temp_directory(result.m_temp_directory)
    /\ temp_dirs' = temp_dirs \ { result.m_temp_directory }
    /\ tree_pc' = "cleaned"
    /\ UNCHANGED << files, processed_files, root_path, queue, visited, result, reports >>
    /\ UNCHANGED << scan_vars, eval_vars, bracket_vars, call_vars >>

InitTree == TreeInit /\ ScanIdle /\ EvalIdle /\ BracketIdle /\ CallIdle

NextTree ==
    \/ ReturnEmptyRoot
    \/ StartFails
    \/ Start
    \/ VisitAgain
    \/ VisitUnreadable
    \/ VisitFile
    \/ VisitNotStaged
    \/ ReturnNothing
    \/ ReturnResult
    \/ Cleanup

SpecTree == InitTree /\ [][NextTree]_vars

\* The thread that runs process_tree goes on running: a step of the call
\* that can be taken is taken.
SpecTreeFair == SpecTree /\ WF_vars(NextTree)

\* The text `template<` occurs in the content.
HasTemplateKeyword(content) == Contains(content, KwTemplate \o << "<" >>)

\* The definition parser accepts at some position of the content.
HasDefinition(content) ==
    \E at \in 0..Len(content) : parse_template_definition(content, at).ok

\* No file was reported to have templates and the call returns no result.
NothingReported ==
    /\ \A i \in 1..Len(reports) : ~reports[i].had_templates
    /\ ~result.m_had_templates
    /\ tree_pc \notin { "result", "cleaned" }

MapsTo(map, key, value) == key \in DOMAIN map /\ map[key] = value

\* C13: after every iteration of the work loop and at return, the two path
\* maps are inverse of each other: original_to_processed[orig] = proc if and
\* only if processed_to_original[proc] = orig.
C13_InverseMaps ==
    \A orig \in DOMAIN result.m_original_to_processed :
        \A proc \in DOMAIN result.m_processed_to_original :
            MapsTo(result.m_original_to_processed, orig, proc)
                <=> MapsTo(result.m_processed_to_original, proc, orig)

\* C14: every file the call writes (each is recorded in original_to_processed
\* with the path it was written at) lies at a path that has the staging
\* directory of the call as a proper prefix.
C14_InsideStaging ==
    \A orig \in DOMAIN result.m_original_to_processed :
        /\ Below(result.m_temp_directory, result.m_original_to_processed[orig])
        /\ result.m_original_to_processed[orig] # result.m_temp_directory

\* Some file that was read had templates.
SomeTemplates == \E i \in 1..Len(reports) : reports[i].had_templates

\* The call has returned a result (which may have been cleaned up since).
Returned == tree_pc \in { "result", "cleaned" }

\* A result is returned exactly when the root path is not empty, the staging
\* directory was created and some visited file had templates.
ResultWhenTemplates ==
    /\ Returned =>
           /\ root_path # << >>
           /\ result.m_temp_directory # << >>
           /\ SomeTemplates
    /\ tree_pc = "nothing" =>
           \/ root_path = << >>
           \/ result.m_temp_directory = << >>
           \/ ~SomeTemplates

\* A returned result has had_templates set and its staging directory exists.
ResultStaged ==
    tree_pc = "result" =>
        /\ result.m_had_templates
        /\ result.m_temp_directory \in temp_dirs

\* After a return without result the staging directory of the call does not
\* exist and no file the call wrote exists.
NothingLeft ==
    tree_pc = "nothing" =>
        /\ result.m_temp_directory \notin temp_dirs
        /\ \A orig \in DOMAIN result.m_original_to_processed :
               result.m_original_to_processed[orig] \notin DOMAIN staged

\* C15: process_tree returns a result if and only if the root path is
\* non-empty, the staging directory was created and at least one visited file
\* had templates; a returned result has had_templates = true and an existing
\* staging directory; and when nothing is returned the staging directory no
\* longer exists and nothing the call wrote remains on disk.
C15_ResultOrNothingLeft == ResultWhenTemplates /\ ResultStaged /\ NothingLeft

\* No path was read and transformed twice.
ReadOnce ==
    \A i, j \in 1..Len(reports) : reports[i].path = reports[j].path => i = j

\* C16: for any files and any import graph among them, with cyclic and self
\* imports and a file imported several times, the call leaves the work loop
\* and returns, and no canonical path is read and transformed more than once.
C16_TerminatesReadOnce ==
    /\ <>(tree_pc \notin { "called", "loop" })
    /\ []ReadOnce

\* The call has returned after reading /p/a, which imports /p/b twice, and
\* /p/b, which imports /p/a.
C16_CycleReturned ==
    /\ tree_pc \in { "nothing", "result" }
    /\ IsPrefix(ImportB \o ImportB, files[PathA])
    /\ IsPrefix(ImportA, files[PathB])
    /\ { reports[i].path : i \in 1..Len(reports) } = { PathA, PathB }

\* The paths a set of paths reaches by one import of a readable file.
Imports(paths) ==
    UNION { { canonicalize_path(processed_files[path].imports[k]) :
                k \in 1..Len(processed_files[path].imports) } :
            path \in { q \in paths : Readable(q) } }

RECURSIVE ReachableFrom(_, _)
ReachableFrom(paths, rounds) ==
    IF rounds = 0 THEN paths ELSE ReachableFrom(paths \cup Imports(paths), rounds - 1)

\* The paths reachable from the root through the imports of readable files.
Reachable == ReachableFrom({ canonicalize_path(root_path) }, Cardinality(TreePaths))

\* The files read whose output could not be written.
NotWritten == { reports[i].path : i \in { j \in 1..Len(reports) : ~reports[j].written } }

\* The path is a key of original_to_processed, its processed path is a key
\* of processed_to_original for it, and the processed file exists.
Recorded(path) ==
    /\ path \in DOMAIN result.m_original_to_processed
    /\ MapsTo(result.m_processed_to_original, result.m_original_to_processed[path], path)
    /\ result.m_original_to_processed[path] \in DOMAIN staged

\* The path is in neither map.
Absent(path) ==
    /\ path \notin DOMAIN result.m_original_to_processed
    /\ \A proc \in DOMAIN result.m_processed_to_original :
           result.m_processed_to_original[proc] # path

\* The work loop has ended with the staged files in place.
LoopEnded == tree_pc = "result" \/ (tree_pc = "loop" /\ queue = << >>)

\* The files that failed are in neither map.
FailedAbsent ==
    \A path \in visited : (~Readable(path) \/ path \in NotWritten) => Absent(path)

\* Every other reachable file is transformed, written and recorded.
OthersRecorded ==
    LoopEnded =>
        \A path \in Reachable :
            (Readable(path) /\ path \notin NotWritten) => Recorded(path)

\* Every other reachable file is a key of original_to_processed.
OthersTransformed ==
    LoopEnded =>
        \A path \in Reachable :
            (Readable(path) /\ path \notin NotWritten) =>
                path \in DOMAIN result.m_original_to_processed

\* C17: a file that cannot be opened or whose output cannot be created is
\* absent from both maps, and every other file reachable from the root through
\* the imports of readable files, those imported by a file whose output could
\* not be written included, is transformed, written and recorded in both maps.
C17_FailureIsLocal == FailedAbsent /\ OthersRecorded

\* The step that creates the staging directory takes a directory that no
\* live result uses.
FreshDirectory ==
    (tree_pc = "called" /\ tree_pc' = "loop") => result'.m_temp_directory \notin temp_dirs

\* The files below the staging directory of the earlier result, with their
\* content.
OtherFiles(staging) ==
    [ path \in { q \in DOMAIN staging : Below(OtherDirectory, q) } |-> staging[path] ]

\* A step of the call leaves the staging directory of the earlier result and
\* the files below it as they are.
OtherUntouched ==
    OtherDirectory \in temp_dirs =>
        /\ OtherDirectory \in temp_dirs'
        /\ OtherFiles(staged') = OtherFiles(staged)

\* C18: a call made while the result of an earlier call is alive takes a
\* staging directory that the earlier result does not use, and writes no
\* file into and deletes no file from the staging directory of the earlier
\* result.
C18_OwnDirectory == [][FreshDirectory /\ OtherUntouched]_vars

\* After cleanup the staging directory of the result does not exist and no
\* processed path recorded in original_to_processed exists.
CleanedGone ==
    tree_pc = "cleaned" =>
        /\ result.m_temp_directory \notin temp_dirs
        /\ \A orig \in DOMAIN result.m_original_to_processed :
               result.m_original_to_processed[orig] \notin DOMAIN staged

\* A second cleanup of the result changes nothing.
CleanupAgain ==
    (tree_pc = "cleaned" /\ tree_pc' = "cleaned") =>
        /\ staged' = staged
        /\ temp_dirs' = temp_dirs

\* C19: cleanup(result) removes the staging directory of the result and
\* everything under it, so that no processed path recorded in
\* original_to_processed exists afterwards, and a cleanup of a result whose
\* staging directory is already removed changes nothing.
C19_CleanupRemovesStaged == []CleanedGone /\ [][CleanupAgain]_vars

\* ------------------------------------------------------------------------
\* Calls of replace_parameters
\* ------------------------------------------------------------------------

\* The characters a body is written from: two parameter names, a letter
\* that makes an occurrence part of a longer identifier, and a separator.
BodyChars == { "T", "U", "x", " " }

ReplaceBodies == UNION { [1..n -> BodyChars] : n \in 0..MaxItems }

TypeParameter(name) == [ m_name |-> name, m_kind |-> "Type" ]

ParameterLists ==
    { << >>,
      << TypeParameter(<< "T" >>) >>,
      << TypeParameter(<< "T" >>), TypeParameter(<< "U" >>) >>,
      << TypeParameter(<< "U" >>), TypeParameter(<< "T" >>) >> }

\* Arguments: the name of the other parameter, a type that holds the name
\* of the parameter itself, and a type that holds neither.
Arguments == { << "U" >>, << "T", "*" >>, << "i", "n", "t" >> }

ArgumentLists == UNION { [1..n -> Arguments] : n \in 0..2 }

\* A call is made with some text, parameters and arguments.
ReplaceInit ==
    /\ replace_source \in ReplaceBodies
    /\ replace_text = replace_source
    /\ replace_params \in ParameterLists
    /\ replace_args \in ArgumentLists
    /\ replace_i = 0
    /\ replace_pos = 0
    /\ replace_pc = "called"

ReplaceUnchanged == UNCHANGED << replace_params, replace_args, replace_source, scan_vars, eval_vars, bracket_vars, tree_vars, register_vars >>

\* if (params.size() != args.size()) return text;
ReplaceMismatch ==
    /\ replace_pc = "called"
    /\ Len(replace_params) # Len(replace_args)
    /\ replace_pc' = "returned"
    /\ UNCHANGED << replace_text, replace_i, replace_pos >>
    /\ ReplaceUnchanged

\* The for loop is entered or goes on with a parameter: i < params.size(),
\* size_t pos = 0.
ReplaceParameter ==
    /\ \/ replace_pc = "called" /\ Len(replace_params) = Len(replace_args) /\ replace_i' = 0
       \/ replace_pc = "next" /\ replace_i' = replace_i + 1
    /\ replace_i' < Len(replace_params)
    /\ replace_pos' = 0
    /\ replace_pc' = "while"
    /\ UNCHANGED replace_text
    /\ ReplaceUnchanged

\* find_identifier(text, param, pos) of the while condition.
ReplaceFound == find_identifier(replace_text, replace_params[replace_i + 1].m_name, replace_pos)

\* The body of the while loop: text.replace(pos, param.size(), replacement);
\* pos += replacement.size().
ReplaceOccurrence ==
    /\ replace_pc = "while"
    /\ ReplaceFound # NPOS
    /\ replace_text' = StrReplace(replace_text, ReplaceFound, Len(replace_params[replace_i + 1].m_name), replace_args[replace_i + 1])
    /\ replace_pos' = ReplaceFound + Len(replace_args[replace_i + 1])
    /\ UNCHANGED << replace_i, replace_pc >>
    /\ ReplaceUnchanged

\* The while loop ends: find_identifier returned npos.
ReplaceSwept ==
    /\ replace_pc = "while"
    /\ ReplaceFound = NPOS
    /\ replace_pc' = "next"
    /\ UNCHANGED << replace_text, replace_i, replace_pos >>
    /\ ReplaceUnchanged

\* The for loop ends: return text.
ReplaceReturn ==
    /\ \/ replace_pc = "called" /\ Len(replace_params) = Len(replace_args) /\ Len(replace_params) = 0
       \/ replace_pc = "next" /\ replace_i + 1 >= Len(replace_params)
    /\ replace_pc' = "returned"
    /\ UNCHANGED << replace_text, replace_i, replace_pos >>
    /\ ReplaceUnchanged

InitReplace == ReplaceInit /\ RegisterIdle /\ ScanIdle /\ EvalIdle /\ BracketIdle /\ TreeIdle

NextReplace ==
    \/ ReplaceMismatch
    \/ ReplaceParameter
    \/ ReplaceOccurrence
    \/ ReplaceSwept
    \/ ReplaceReturn

SpecReplace == InitReplace /\ [][NextReplace]_vars

\* The token stands at position p of the text as a whole word.
WholeWordAt(body, token, p) ==
    /\ Substr(body, p, Len(token)) = token
    /\ p = 0 \/ ~is_identifier_char(At(body, p - 1))
    /\ p + Len(token) >= Len(body) \/ ~is_identifier_char(At(body, p + Len(token)))

\* The parameters whose name stands at position p as a whole word.
ParametersAt(body, params, p) == { i \in 1..Len(params) : WholeWordAt(body, params[i].m_name, p) }

\* The simultaneous replacement: each whole-word occurrence of a parameter
\* name in the body gives way to the argument of that parameter, and the
\* arguments put in are not read again.
RECURSIVE Simultaneous(_, _, _, _)
Simultaneous(body, params, args, p) ==
    IF p >= Len(body) THEN << >>
    ELSE IF ParametersAt(body, params, p) = { }
    THEN << At(body, p) >> \o Simultaneous(body, params, args, p + 1)
    ELSE LET i == CHOOSE k \in ParametersAt(body, params, p) : \A j \in ParametersAt(body, params, p) : k <= j
         IN args[i] \o Simultaneous(body, params, args, p + Len(params[i].m_name))

ReplaceReturned == replace_pc = "returned" /\ Len(replace_params) = Len(replace_args)

\* C21: the text replace_parameters returns is the simultaneous whole-word
\* replacement of each parameter name by its own argument: an argument put
\* in for one parameter is not rewritten by the substitution of the same or
\* of another parameter.
C21_SimultaneousReplacement ==
    ReplaceReturned => replace_text = Simultaneous(replace_source, replace_params, replace_args, 0)

\* The stepwise call returns what the operator replace_parameters gives.
ReplaceAgrees ==
    replace_pc = "returned" => replace_text = replace_parameters(replace_source, replace_params, replace_args)

\* The argument of the parameter swept is not rewritten by its own sweep.
OwnArgumentKept ==
    (ReplaceReturned /\ Len(replace_params) = 1)
        => replace_text = Simultaneous(replace_source, replace_params, replace_args, 0)

\* ------------------------------------------------------------------------
\* Properties of the placeholder
\* ------------------------------------------------------------------------

\* The position of the next text after spaces and const / volatile
\* qualifiers that are followed by no identifier character.
RECURSIVE PastQualifiers(_, _)
PastQualifiers(body, p) ==
    IF p < Len(body) /\ isspace(At(body, p)) THEN PastQualifiers(body, p + 1)
    ELSE IF \E word \in { KwConst, KwVolatile } : QualifierAt(body, p, word)
    THEN PastQualifiers(body, p + Len(CHOOSE word \in { KwConst, KwVolatile } : QualifierAt(body, p, word)))
    ELSE p

\* What stands for the parameter whose name ends before position p.
Stands(body, param, p) ==
    IF param.m_kind # "Type" THEN << "1" >>
    ELSE IF PastQualifiers(body, p) < Len(body) /\ At(body, PastQualifiers(body, p)) = "*"
    THEN << "v", "o", "i", "d" >>
    ELSE << "v", "o", "i", "d", "*" >>

\* The body with every whole-word occurrence of a parameter given way to
\* what stands for it, each occurrence judged in the body as parsed.
RECURSIVE Retyped(_, _, _)
Retyped(body, params, p) ==
    IF p >= Len(body) THEN << >>
    ELSE IF ParametersAt(body, params, p) = { }
    THEN << At(body, p) >> \o Retyped(body, params, p + 1)
    ELSE LET param == params[CHOOSE k \in ParametersAt(body, params, p) : \A j \in ParametersAt(body, params, p) : k <= j]
         IN Stands(body, param, p + Len(param.m_name)) \o Retyped(body, params, p + Len(param.m_name))

PlaceholderBody(def) == evaluate_bracket_expressions(Retyped(def.m_body, def.m_parameters, 0))

\* The placeholder declaration of a definition, without its indentation.
PlaceholderDeclaration(def) ==
    def.m_keyword \o << " " >> \o def.m_name \o def.m_between \o << "{" >>
        \o PlaceholderBody(def) \o def.m_closing

\* The bodies of the placeholders of the stored definitions are the retyped
\* bodies, and every stored definition has had its placeholder written.
PlaceholdersRetyped ==
    \A k \in 1..Len(definitions) :
        /\ convert_template_body_placeholder(definitions[k]) = PlaceholderBody(definitions[k])
        /\ definitions[k].m_placeholder_generated

\* A step stores at most one definition, and the step that stores one
\* appends to the output the indentation of the definition, its placeholder
\* declaration once, and line ends.
PlaceholderOnce ==
    \/ Len(definitions') = Len(definitions)
    \/ /\ Len(definitions') = Len(definitions) + 1
       /\ \E line_ends \in { << >>, << "\n" >> } :
              output' = output \o definitions'[Len(definitions')].m_indentation
                            \o PlaceholderDeclaration(definitions'[Len(definitions')])
                            \o line_ends

\* C22: the body of a placeholder is the definition body in which every
\* whole-word occurrence of a Type parameter is `void` when a `*` follows
\* after spaces and const / volatile qualifiers and `void*` otherwise, every
\* whole-word occurrence of a NonType parameter is `1`, and the bracket
\* expressions are then reduced; the placeholder is written to the output
\* once for each definition parsed.
C22_PlaceholderRetyped == []PlaceholdersRetyped /\ [][PlaceholderOnce]_vars

\* A definition is stored whose body holds the parameter T before a `*` and
\* before a name, and N inside a bracket expression, and its placeholder is
\* in the output.
C22_ExamplesRetyped ==
    /\ Len(definitions) = 1
    /\ definitions[1].m_body = BodyExamples
    /\ PlaceholderBody(definitions[1])
           = << "v", "o", "i", "d", "*", " ", "p", "t", "r", ";", " ",
                "v", "o", "i", "d", "*", " ", "v", "a", "l", "u", "e", ";",
                "c", "h", "a", "r", " ", "d", "a", "t", "a", "[", "3", "]", ";" >>
    /\ Occurrences(output, PlaceholderDeclaration(definitions[1]), 0) = 1

\* ------------------------------------------------------------------------
\* Properties of the scope stack and of PendingScope
\* ------------------------------------------------------------------------

\* The stack is not empty, its bottom is the root frame, the depths grow
\* from bottom to top, no frame lies deeper than the braces open, and the
\* frames below the root have a name.
StackShape ==
    /\ Len(scope_stack) >= 1
    /\ scope_stack[1].m_path = << >> /\ scope_stack[1].m_depth = 0
    /\ \A k \in 2..Len(scope_stack) :
           /\ scope_stack[k - 1].m_depth < scope_stack[k].m_depth
           /\ scope_stack[k].m_depth <= brace_depth
           /\ scope_stack[k].m_name # << >>
    /\ brace_depth >= 0

\* C23: in every state of the scan the scope stack is not empty and its
\* bottom is the root frame (empty path, depth 0), the depths of the frames
\* grow strictly from bottom to top, no frame below the root is deeper than
\* the brace depth, the brace depth is not negative, and the path of every
\* frame below the root is the path of its parent, a `.` and its name.
C23_ScopeStack ==
    /\ StackShape
    /\ \A k \in 2..Len(scope_stack) :
           scope_stack[k].m_path = scope_stack[k - 1].m_path \o << "." >> \o scope_stack[k].m_name

\* The dot-joined path of a frame: the name alone below the root frame.
Joined(parent, name) == IF parent = << >> THEN name ELSE parent \o << "." >> \o name

\* C23, amended: as C23, with the path of a frame whose parent has the
\* empty path being the name of the frame, without a `.` before it.
C23_ScopeStackJoined ==
    /\ StackShape
    /\ \A k \in 2..Len(scope_stack) :
           scope_stack[k].m_path = Joined(scope_stack[k - 1].m_path, scope_stack[k].m_name)

\* Two frames are on the stack above the root, the upper one inside the
\* lower one, and a `}` has been read when no brace was open.
C23_NestedFrames ==
    /\ Len(scope_stack) = 3
    /\ scope_stack[3].m_path = << "S", ".", "S" >>
    /\ brace_depth = 2
    /\ IsPrefix(<< "}" >>, text)

\* PendingScope is idle, expects a name or expects a brace, and it expects
\* a brace only with a name.
PendingShape ==
    /\ ~(pending_scope.m_expect_name /\ pending_scope.m_expect_brace)
    /\ pending_scope.m_expect_brace => pending_scope.m_name # << >>

\* A `{` read while a named scope is awaited pushes a frame of that name.
AwaitedPushed ==
    (Scanning /\ CharAt(Cur) = "{" /\ awaited.m_expect_brace)
        => /\ Len(scope_stack') = Len(scope_stack) + 1
           /\ scope_stack'[Len(scope_stack')].m_name = awaited.m_name

\* C24: PendingScope is always idle, expecting a name or expecting a brace,
\* never both, and expects a brace only with a non-empty name; and when a
\* scope keyword, then a name token, then a `{` are read with no `;`, no `}`
\* and no parsed definition in between, a frame of that name is pushed at
\* the `{`, whatever tokens and use sites stand between the name and the `{`.
C24_PendingScope == []PendingShape /\ [][AwaitedPushed]_vars

\* C24 without the frame of a scope that has a resolved use site between
\* its name and its `{`: PendingScope follows the awaited scope until a
\* use site resolves.
PendingFollows ==
    \/ pending_scope = awaited
    \/ pending_scope = IdlePending /\ use_sites # << >>

\* ------------------------------------------------------------------------
\* Calls of register_specialization
\* ------------------------------------------------------------------------

\* The largest number of calls made on a definition.
MaxCalls == 3

\* struct P<typename T,typename U>{T a;U b;};
DefP ==
    KwStruct \o << " ", "P", "<" >> \o TypenameT \o << "," >> \o KwTypename
        \o << " ", "U", ">", "{", "T", " ", "a", ";", "U", " ", "b", ";", "}", ";" >>

\* The definitions that are specialized: B and P as parsed, at file scope
\* and in the scope S.
RegisteredDefinitions ==
    { [parse_template_definition(source, 0).def EXCEPT !.m_scope_path = path] :
          source \in { DefB, DefP }, path \in { << >>, << "S" >> } }

\* Argument lists: one argument, two that sanitize_token maps to one name,
\* two arguments, and one argument that holds the separator of signatures.
RegisteredArguments ==
    { << << "i" >> >>, << << "1" >> >>, << << "-", "1" >> >>,
      << << "a" >>, << "b" >> >>,
      << << "a", UnitSeparator, "b" >> >> }

\* Prefixes of the token at the use site and paths of the scope on top.
Prefixes == { << >>, << "S" >>, << "a", ".", "b" >>, << "a", "_", "b" >> }

CurrentScopes == { << >>, << "n", ".", "S" >> }

RegisterInit ==
    /\ register_def \in RegisteredDefinitions
    /\ register_returned = 0
    /\ register_signature = << >>
    /\ register_signatures = { }
    /\ register_calls = 0

\* The arguments joined by U+001F.
RECURSIVE JoinedArguments(_)
JoinedArguments(args) ==
    IF Len(args) = 0 THEN << >>
    ELSE IF Len(args) = 1 THEN args[1]
    ELSE args[1] \o << "\\x1f" >> \o JoinedArguments(Tail(args))

\* The signature a call asks for: scope hint, `|`, arguments.
Signature(def, args, prefix, current_scope) ==
    ScopeHint(def, prefix, current_scope) \o << "|" >> \o JoinedArguments(args)

\* One call of register_specialization(def, args, prefix, current_scope).
Register ==
    /\ register_calls < MaxCalls
    /\ \E args \in RegisteredArguments, prefix \in Prefixes, current_scope \in CurrentScopes :
          /\ register_def' = register_specialization(register_def, args, prefix, current_scope).def
          /\ register_returned' = register_specialization(register_def, args, prefix, current_scope).at
          /\ register_signature' = Signature(register_def, args, prefix, current_scope)
    /\ register_signatures' = register_signatures \cup { register_signature' }
    /\ register_calls' = register_calls + 1
    /\ UNCHANGED << scan_vars, eval_vars, bracket_vars, tree_vars, replace_vars >>

InitRegister == RegisterInit /\ ReplaceIdle /\ ScanIdle /\ EvalIdle /\ BracketIdle /\ TreeIdle

NextRegister == Register

SpecRegister == InitRegister /\ [][NextRegister]_vars

\* The index maps exactly the signatures asked for, each to a position of
\* m_specializations (counted from 0), and there are as many
\* specializations as signatures.
IndexValid ==
    /\ DOMAIN register_def.m_specialization_index = register_signatures
    /\ \A signature \in register_signatures :
           register_def.m_specialization_index[signature] \in 0..(Len(register_def.m_specializations) - 1)
    /\ Len(register_def.m_specializations) = Cardinality(register_signatures)

\* A call with a signature that is known returns the entry stored for it
\* and leaves the definition as it was.
KnownReturned ==
    register_signature' \in register_signatures
        => /\ register_def' = register_def
           /\ register_returned' = register_def.m_specialization_index[register_signature'] + 1

\* A call keeps the entries stored before it, at their positions and under
\* their signatures, and returns the entry stored for its signature.
EntriesKept ==
    /\ SubSeq(register_def'.m_specializations, 1, Len(register_def.m_specializations)) = register_def.m_specializations
    /\ \A signature \in register_signatures :
           register_def'.m_specialization_index[signature] = register_def.m_specialization_index[signature]
    /\ register_returned' = register_def'.m_specialization_index[register_signature'] + 1

\* C25: after any sequence of calls of register_specialization on a
\* definition, m_specialization_index maps each signature asked for (scope
\* hint, `|`, arguments joined by U+001F) to a position of
\* m_specializations, there are as many specializations as distinct
\* signatures, a call with a known signature returns the entry stored and
\* changes nothing, and no call changes or moves an entry stored before.
C25_SpecializationIndex == []IndexValid /\ [][KnownReturned /\ EntriesKept]_vars

\* Three calls were made with two signatures: the last one asked for the
\* signature of the first and was given the first entry.
C25_KnownSignature ==
    /\ register_calls = 3
    /\ Len(register_def.m_specializations) = 2
    /\ register_returned = 1

\* ------------------------------------------------------------------------
\* Termination of process_file_content and of replace_parameters
\* ------------------------------------------------------------------------

\* A call of process_file_content on an input file or on a file about the
\* ends of lexical elements, or a call of replace_parameters.
InitTerminating ==
    /\ \/ (\E t \in InputFiles \cup LexicalFiles : ScanIs(ScanStart(t))) /\ ReplaceIdle
       \/ ScanIdle /\ ReplaceInit
    /\ RegisterIdle /\ EvalIdle /\ BracketIdle /\ TreeIdle

NextTerminating == ScanNext \/ NextReplace

\* An iteration of the loop of process_file_content: the loop is running
\* and the step leaves the cursor somewhere (WF_pos: somewhere else).
Iteration == Running /\ pos' \in 0..(Len(text) + 1)

\* Both functions run on their own thread of control until they return or
\* the process ends.
SpecTerminating ==
    InitTerminating /\ [][NextTerminating]_vars /\ WF_pos(Iteration) /\ WF_vars(NextReplace)

\* Every step of the scan that does not end the process moves the cursor
\* forward.
CursorAdvances == (scan_vars' # scan_vars /\ ~crashed') => pos' > pos

\* A running loop has a step to take.
StepEnabled ==
    Running =>
           \/ AtString(Cur) \/ AtLineComment(Cur) \/ AtBlockComment(Cur)
           \/ DefinitionAt(Cur).ok
           \/ CharAt(Cur) \in { "{", "}", ";" }
           \/ isspace(CharAt(Cur))
           \/ AtToken(Cur)
           \/ AtOther(Cur)

\* The scan has left its loop, and no call of replace_parameters is under way.
BothReturned == ScanDone /\ replace_pc \in { "idle", "returned" }

\* C26: process_file_content terminates on every input, every iteration
\* of its loop moving the cursor forward, and replace_parameters terminates,
\* also when an argument holds the name of the parameter it replaces.
C26_Terminates == <>BothReturned /\ [][CursorAdvances]_vars

\* The calls return, but for the scans in which the process ends at the
\* read of a definition that is no longer stored.
TerminatesUnlessCrashed == <>(BothReturned \/ crashed) /\ [][CursorAdvances]_vars

\* The process has ended inside process_file_content, before the end of
\* the text.
CrashedBeforeEnd == crashed /\ Scanning

\* ------------------------------------------------------------------------
\* Files without a definition
\* ------------------------------------------------------------------------

\* What a file that is copied is written from: a string with an escaped
\* quote, a character literal, both comments, the braces, a token, two
\* `name<...>` sequences, the definition of B inside a string, and the
\* definition of B itself.
CopiedItems ==
    { << "\"", "a", "\\", "\"", "\"" >>,
      << "'", "{", "'" >>,
      << "/", "/", "B", "<", "i", ">", "\n" >>,
      << "/", "*", "}", "*", "/" >>,
      << "{" >>, << "}" >>,
      << "x", " " >>,
      << "U", "<", "i", ">" >>,
      << "B", "<", "i", ">", ";" >>,
      << "\"" >> \o DefB \o << "\"" >>,
      DefB }

\* {"a\"";/*}*/U<i> y;}//B<i>
FilePlain ==
    << "{", "\"", "a", "\\", "\"", "\"", ";", "/", "*", "}", "*", "/",
       "U", "<", "i", ">", " ", "y", ";", "}", "/", "/", "B", "<", "i", ">" >>

CopiedFiles ==
    { Flatten(s) : s \in UNION { [1..n -> CopiedItems] : n \in 0..MaxItems } } \cup { FilePlain }

InitCopied ==
    /\ \E t \in InputFiles \cup CopiedFiles : ScanIs(ScanStart(t))
    /\ EvalIdle /\ BracketIdle /\ TreeIdle /\ CallIdle

SpecCopied == InitCopied /\ [][Next]_vars

\* The text up to the cursor.
Scanned == Substr(text, 0, pos)

\* While the definition parser has succeeded at no position the scan has
\* stood at, the output is the text scanned so far.
CopiedSoFar == definitions = << >> => output = Scanned

\* C27: for an input in which parse_template_definition succeeds at no
\* scan position, process_file_content returns the input text byte for
\* byte with had_templates = false; and had_templates is true exactly when
\* at least one definition was parsed in the file.
C27_CopiedUnchanged ==
    /\ CopiedSoFar
    /\ (ScanDone /\ definitions = << >>) => output = text
    /\ had_templates <=> definitions # << >>

\* A finished scan of a file with a string, comments, braces, tokens and
\* a `name<...>` sequence and no definition: the output is the file.
C27_PlainCopied ==
    /\ ScanDone
    /\ text = FilePlain
    /\ output = FilePlain
    /\ ~had_templates

\* A finished scan of a file in which the parser would accept inside a
\* string, where the scan never stands.
DefinitionInString ==
    /\ ScanDone
    /\ HasDefinition(text)
    /\ definitions = << >>
    /\ output = text
====
